---- MODULE Spec2Model ----
(***************************************************************************)
(* Laravel backend generator for MySQL Workbench models                    *)
(* (src/laravel_generator.py): WorkbenchParser extracts tables, columns    *)
(* and foreign keys from the model document, LaravelGenerator sorts the    *)
(* tables by foreign-key dependency and writes one migration, model,       *)
(* controller and seeder per table, then the routes file and the           *)
(* DatabaseSeeder.                                                         *)
(*                                                                         *)
(* Text is a sequence of one-character strings, so that lower(), split(),  *)
(* endswith(), replace() and int() are computed the way Python computes    *)
(* them.                                                                   *)
(***************************************************************************)
EXTENDS Integers, Sequences, FiniteSets, TLC

---------------------------------------------------------------------------
(* Text literals of the source and of the model documents.                 *)

s_id == <<"i", "d">>
s_suffix_id == <<"_", "i", "d">>
s_users == <<"u", "s", "e", "r", "s">>
s_posts == <<"p", "o", "s", "t", "s">>
s_tags == <<"t", "a", "g", "s">>
s_roles == <<"r", "o", "l", "e", "s">>
s_items == <<"i", "t", "e", "m", "s">>
s_user_id == <<"u", "s", "e", "r", "_", "i", "d">>
s_author_id == <<"a", "u", "t", "h", "o", "r", "_", "i", "d">>
s_category_id == <<"c", "a", "t", "e", "g", "o", "r", "y", "_", "i", "d">>
s_parent_id == <<"p", "a", "r", "e", "n", "t", "_", "i", "d">>
s_title == <<"t", "i", "t", "l", "e">>
s_email == <<"e", "m", "a", "i", "l">>
s_uc_email == <<"E", "m", "a", "i", "l">>
s_user_email == <<"u", "s", "e", "r", "_", "e", "m", "a", "i", "l">>
s_email_id == <<"e", "m", "a", "i", "l", "_", "i", "d">>
s_created_at == <<"c", "r", "e", "a", "t", "e", "d", "_", "a", "t">>
s_updated_at == <<"u", "p", "d", "a", "t", "e", "d", "_", "a", "t">>
s_deleted_at == <<"d", "e", "l", "e", "t", "e", "d", "_", "a", "t">>
s_varchar == <<"v", "a", "r", "c", "h", "a", "r">>
s_char == <<"c", "h", "a", "r">>
s_text == <<"t", "e", "x", "t">>
s_int == <<"i", "n", "t">>
s_integer == <<"i", "n", "t", "e", "g", "e", "r">>
s_tinyint == <<"t", "i", "n", "y", "i", "n", "t">>
s_smallint == <<"s", "m", "a", "l", "l", "i", "n", "t">>
s_mediumint == <<"m", "e", "d", "i", "u", "m", "i", "n", "t">>
s_bigint == <<"b", "i", "g", "i", "n", "t">>
s_mediumtext == <<"m", "e", "d", "i", "u", "m", "t", "e", "x", "t">>
s_longtext == <<"l", "o", "n", "g", "t", "e", "x", "t">>
s_decimal == <<"d", "e", "c", "i", "m", "a", "l">>
s_float == <<"f", "l", "o", "a", "t">>
s_double == <<"d", "o", "u", "b", "l", "e">>
s_boolean == <<"b", "o", "o", "l", "e", "a", "n">>
s_bool == <<"b", "o", "o", "l">>
s_date == <<"d", "a", "t", "e">>
s_datetime == <<"d", "a", "t", "e", "t", "i", "m", "e">>
s_timestamp == <<"t", "i", "m", "e", "s", "t", "a", "m", "p">>
s_time == <<"t", "i", "m", "e">>
s_year == <<"y", "e", "a", "r">>
s_json == <<"j", "s", "o", "n">>
s_enum == <<"e", "n", "u", "m">>
s_blob == <<"b", "l", "o", "b">>
s_binary == <<"b", "i", "n", "a", "r", "y">>
s_geometry == <<"g", "e", "o", "m", "e", "t", "r", "y">>
s_uc_bigint == <<"B", "I", "G", "I", "N", "T">>
s_uc_datetime == <<"D", "A", "T", "E", "T", "I", "M", "E">>
s_uc_date == <<"D", "A", "T", "E">>
s_uc_time == <<"T", "I", "M", "E">>
s_uc_int == <<"I", "N", "T">>
s_uc_decimal == <<"D", "E", "C", "I", "M", "A", "L">>
s_uc_varchar == <<"V", "A", "R", "C", "H", "A", "R">>
s_uc_smallint == <<"S", "M", "A", "L", "L", "I", "N", "T">>
s_uc_restrict == <<"R", "E", "S", "T", "R", "I", "C", "T">>
s_uc_cascade == <<"C", "A", "S", "C", "A", "D", "E">>
s_uc_set_null == <<"S", "E", "T", " ", "N", "U", "L", "L">>
s_uc_no_action == <<"N", "O", " ", "A", "C", "T", "I", "O", "N">>
s_cascade == <<"c", "a", "s", "c", "a", "d", "e">>
s_restrict == <<"r", "e", "s", "t", "r", "i", "c", "t">>
s_set_null == <<"s", "e", "t", " ", "n", "u", "l", "l">>
s_fecha == <<"f", "e", "c", "h", "a">>
s_hora == <<"h", "o", "r", "a">>
s_creacion == <<"c", "r", "e", "a", "c", "i", "o", "n">>
s_reservacion == <<"r", "e", "s", "e", "r", "v", "a", "c", "i", "o", "n">>
s_edad == <<"e", "d", "a", "d">>
s_age == <<"a", "g", "e">>
s_years == <<"y", "e", "a", "r", "s">>
s_precio == <<"p", "r", "e", "c", "i", "o">>
s_costo == <<"c", "o", "s", "t", "o">>
s_price == <<"p", "r", "i", "c", "e">>
s_cost == <<"c", "o", "s", "t">>
s_255 == <<"2", "5", "5">>
s_50 == <<"5", "0">>
s_8 == <<"8">>
s_2 == <<"2">>
s_1 == <<"1">>
s_minus1 == <<"-", "1">>
s_clientes == <<"c", "l", "i", "e", "n", "t", "e", "s">>
s_cliente == <<"c", "l", "i", "e", "n", "t", "e">>
s_medicos == <<"m", "e", "d", "i", "c", "o", "s">>
s_medico == <<"m", "e", "d", "i", "c", "o">>
s_servicios == <<"s", "e", "r", "v", "i", "c", "i", "o", "s">>
s_servicio == <<"s", "e", "r", "v", "i", "c", "i", "o">>
s_horarios == <<"h", "o", "r", "a", "r", "i", "o", "s">>
s_horario == <<"h", "o", "r", "a", "r", "i", "o">>
s_estatus == <<"e", "s", "t", "a", "t", "u", "s">>
s_rol == <<"r", "o", "l">>
s_user == <<"u", "s", "e", "r">>
s_ies == <<"i", "e", "s">>
s_es == <<"e", "s">>
s_s == <<"s">>
s_y == <<"y">>
s_create_ == <<"c", "r", "e", "a", "t", "e", "_">>
s__table == <<"_", "t", "a", "b", "l", "e">>
s_Ids == <<"I", "d", "s">>
s_uc_id == <<"I", "D">>
s_fecha_id == <<"f", "e", "c", "h", "a", "_", "i", "d">>
s_fecha_hora == <<"f", "e", "c", "h", "a", "_", "h", "o", "r", "a">>
s_uc_fecha == <<"F", "e", "c", "h", "a">>
s_update_time == <<"u", "p", "d", "a", "t", "e", "_", "t", "i", "m", "e">>
s_created_date == <<"c", "r", "e", "a", "t", "e", "d", "_", "d", "a", "t", "e">>
s_timeline == <<"t", "i", "m", "e", "l", "i", "n", "e">>
s_page == <<"p", "a", "g", "e">>
s_price_date == <<"p", "r", "i", "c", "e", "_", "d", "a", "t", "e">>
s_time_cost == <<"t", "i", "m", "e", "_", "c", "o", "s", "t">>
s_fecha_creacion == <<"f", "e", "c", "h", "a", "_", "c", "r", "e", "a", "c", "i", "o", "n">>
s_date_reservacion == <<"d", "a", "t", "e", "_", "r", "e", "s", "e", "r", "v", "a", "c", "i", "o", "n">>
s_edad_costo == <<"e", "d", "a", "d", "_", "c", "o", "s", "t", "o">>
s_uc_age == <<"A", "g", "e">>
s_qualified_varchar == <<"c", "o", "m", ".", "m", "y", "s", "q", "l", ".", "r", "d", "b", "m", "s", ".", "m", "y", "s", "q", "l", ".", "d", "a", "t", "a", "t", "y", "p", "e", ".", "v", "a", "r", "c", "h", "a", "r">>
s_user_bool == <<"c", "o", "m", ".", "m", "y", "s", "q", "l", ".", "r", "d", "b", "m", "s", ".", "m", "y", "s", "q", "l", ".", "u", "s", "e", "r", "d", "a", "t", "a", "t", "y", "p", "e", ".", "b", "o", "o", "l">>
s_required == <<"r", "e", "q", "u", "i", "r", "e", "d">>
s_nullable == <<"n", "u", "l", "l", "a", "b", "l", "e">>
s_numeric == <<"n", "u", "m", "e", "r", "i", "c">>
s_string == <<"s", "t", "r", "i", "n", "g">>
s_max_colon == <<"m", "a", "x", ":">>
s_array == <<"a", "r", "r", "a", "y">>
s_exists_colon == <<"e", "x", "i", "s", "t", "s", ":">>
s_person == <<"p", "e", "r", "s", "o", "n">>
s_people == <<"p", "e", "o", "p", "l", "e">>
s_man == <<"m", "a", "n">>
s_men == <<"m", "e", "n">>
s_woman == <<"w", "o", "m", "a", "n">>
s_women == <<"w", "o", "m", "e", "n">>
s_child == <<"c", "h", "i", "l", "d">>
s_children == <<"c", "h", "i", "l", "d", "r", "e", "n">>
s_tooth == <<"t", "o", "o", "t", "h">>
s_teeth == <<"t", "e", "e", "t", "h">>
s_foot == <<"f", "o", "o", "t">>
s_feet == <<"f", "e", "e", "t">>
s_mouse == <<"m", "o", "u", "s", "e">>
s_mice == <<"m", "i", "c", "e">>
s_goose == <<"g", "o", "o", "s", "e">>
s_geese == <<"g", "e", "e", "s", "e">>
s_ves == <<"v", "e", "s">>
s_notes_txt == <<"n", "o", "t", "e", "s", ".", "t", "x", "t">>
s_TagSeeder == <<"T", "a", "g", "S", "e", "e", "d", "e", "r">>
s_PostSeeder == <<"P", "o", "s", "t", "S", "e", "e", "d", "e", "r">>
s_minute == <<"2", "0", "2", "6", "_", "0", "1", "_", "0", "1", "_", "0", "0", "0", "0">>
s_uc_users == <<"U", "s", "e", "r", "s">>
s_post == <<"p", "o", "s", "t">>
s_user_posts == <<"u", "s", "e", "r", "_", "p", "o", "s", "t", "s">>
s_categories == <<"c", "a", "t", "e", "g", "o", "r", "i", "e", "s">>
s_code == <<"c", "o", "d", "e">>
s_old_php == <<"o", "l", "d", ".", "p", "h", "p">>
s_100 == <<"1", "0", "0">>
s_uc_null == <<"N", "U", "L", "L">>
s_null == <<"n", "u", "l", "l">>
s_qualified_int == <<"c", "o", "m", ".", "m", "y", "s", "q", "l", ".", "r", "d", "b", "m", "s", ".", "m", "y", "s", "q", "l", ".", "d", "a", "t", "a", "t", "y", "p", "e", ".", "i", "n", "t">>
s_varchar_45 == <<"v", "a", "r", "c", "h", "a", "r", "(", "4", "5", ")">>
s_status == <<"s", "t", "a", "t", "u", "s">>
s_Controller == <<"C", "o", "n", "t", "r", "o", "l", "l", "e", "r">>
s_Seeder == <<"S", "e", "e", "d", "e", "r">>
s_dot_php == <<".", "p", "h", "p">>
s_api_php == <<"a", "p", "i", ".", "p", "h", "p">>
s_DatabaseSeeder_php == <<"D", "a", "t", "a", "b", "a", "s", "e", "S", "e", "e", "d", "e", "r", ".", "p", "h", "p">>
s_RolSeeder == <<"R", "o", "l", "S", "e", "e", "d", "e", "r">>
s_EstatusSeeder == <<"E", "s", "t", "a", "t", "u", "s", "S", "e", "e", "d", "e", "r">>
s_UserSeeder == <<"U", "s", "e", "r", "S", "e", "e", "d", "e", "r">>

---------------------------------------------------------------------------
(* Python str operations on text.                                          *)

None == <<"None">>

UpperCase == <<"A","B","C","D","E","F","G","H","I","J","K","L","M",
               "N","O","P","Q","R","S","T","U","V","W","X","Y","Z">>

LowerCase == <<"a","b","c","d","e","f","g","h","i","j","k","l","m",
               "n","o","p","q","r","s","t","u","v","w","x","y","z">>

Digits == {"0","1","2","3","4","5","6","7","8","9"}

DigitSeq == <<"0","1","2","3","4","5","6","7","8","9">>

IsUpperChar(c) == \E i \in 1..Len(UpperCase) : UpperCase[i] = c

IsLowerChar(c) == \E i \in 1..Len(LowerCase) : LowerCase[i] = c

LowerChar(c) ==
    IF IsUpperChar(c)
    THEN LowerCase[CHOOSE i \in 1..Len(UpperCase) : UpperCase[i] = c]
    ELSE c

UpperChar(c) ==
    IF IsLowerChar(c)
    THEN UpperCase[CHOOSE i \in 1..Len(LowerCase) : LowerCase[i] = c]
    ELSE c

\* str.lower()
Lower(s) == [i \in 1..Len(s) |-> LowerChar(s[i])]

\* str.capitalize(): first character upper-cased, the rest lower-cased
Capitalize(s) ==
    [i \in 1..Len(s) |-> IF i = 1 THEN UpperChar(s[i]) ELSE LowerChar(s[i])]

\* s[a:b] with 0-based a, exclusive b, already clipped to the text
Slice(s, a, b) == IF b <= a THEN <<>> ELSE SubSeq(s, a + 1, b)

\* str.startswith / str.endswith
StartsWith(s, pre) ==
    Len(pre) <= Len(s) /\ SubSeq(s, 1, Len(pre)) = pre

EndsWith(s, suf) ==
    Len(suf) <= Len(s) /\ SubSeq(s, Len(s) - Len(suf) + 1, Len(s)) = suf

\* sub in s
Contains(s, sub) ==
    \E i \in 0..(Len(s) - Len(sub)) : SubSeq(s, i + 1, i + Len(sub)) = sub

\* ch in s, for one character
HasChar(s, ch) == \E i \in 1..Len(s) : s[i] = ch

\* str.replace(ch, '') for one character
RemoveChar(s, ch) == SelectSeq(s, LAMBDA c : c # ch)

\* str.replace(ch, by) for one character replaced by one character
ReplaceChar(s, ch, by) == [i \in 1..Len(s) |-> IF s[i] = ch THEN by ELSE s[i]]

\* str.strip()
RECURSIVE LStrip(_)
LStrip(s) == IF s # <<>> /\ Head(s) = " " THEN LStrip(Tail(s)) ELSE s

RECURSIVE RStrip(_)
RStrip(s) ==
    IF s # <<>> /\ s[Len(s)] = " " THEN RStrip(SubSeq(s, 1, Len(s) - 1)) ELSE s

Strip(s) == RStrip(LStrip(s))

\* s.split(ch)[0]: the text before the first ch
FirstSegment(s, ch) ==
    IF HasChar(s, ch)
    THEN SubSeq(s, 1, (CHOOSE i \in 1..Len(s) :
                          s[i] = ch /\ \A j \in 1..(i - 1) : s[j] # ch) - 1)
    ELSE s

\* s.split(ch)[-1]: the text after the last ch
LastSegment(s, ch) ==
    IF HasChar(s, ch)
    THEN SubSeq(s, (CHOOSE i \in 1..Len(s) :
                       s[i] = ch /\ \A j \in (i + 1)..Len(s) : s[j] # ch) + 1, Len(s))
    ELSE s

\* s.split(): the maximal runs of non-blank characters
RECURSIVE SplitWords(_)
SplitWords(s) ==
    LET t == LStrip(s) IN
    IF t = <<>> THEN <<>>
    ELSE LET w == FirstSegment(t, " ")
         IN <<w>> \o SplitWords(SubSeq(t, Len(w) + 1, Len(t)))

\* ''.join(parts)
RECURSIVE Join(_)
Join(parts) == IF parts = <<>> THEN <<>> ELSE Head(parts) \o Join(Tail(parts))

\* str.isdigit() on ASCII text
IsDigit(s) == s # <<>> /\ \A i \in 1..Len(s) : s[i] \in Digits

DigitValue(c) == (CHOOSE i \in 1..Len(DigitSeq) : DigitSeq[i] = c) - 1

RECURSIVE NatValue(_)
NatValue(s) ==
    IF s = <<>> THEN 0
    ELSE NatValue(SubSeq(s, 1, Len(s) - 1)) * 10 + DigitValue(s[Len(s)])

\* int(s) succeeds on: blanks, an optional sign, digits, blanks
IntBody(s) == IF s # <<>> /\ Head(s) \in {"-", "+"} THEN Tail(s) ELSE s

IntParses(s) == IsDigit(IntBody(Strip(s)))

\* int(s), where IntParses(s)
IntValue(s) ==
    LET t == Strip(s)
    IN IF Head(t) = "-" THEN 0 - NatValue(IntBody(t)) ELSE NatValue(IntBody(t))

\* x in [a, b, ...]
InList(x, list) == \E i \in 1..Len(list) : list[i] = x

---------------------------------------------------------------------------
(* WorkbenchParser: the model document and its extraction.                 *)
(*                                                                         *)
(* A document is [container, tables, fks]. An element's text that is      *)
(* missing or empty is <<>> (what _get_text turns into its default); a     *)
(* missing link is None.                                                   *)

\* _get_text: the element's text, or the default when missing or empty
GetText(text, default) == IF text # <<>> THEN text ELSE default

\* dict.get(key, default) on a dict built by successive assignments
DictGet(pairs, key, default) ==
    IF \E i \in 1..Len(pairs) : pairs[i][1] = key
    THEN pairs[CHOOSE i \in 1..Len(pairs) :
                 /\ pairs[i][1] = key
                 /\ \A j \in (i + 1)..Len(pairs) : pairs[j][1] # key][2]
    ELSE default

RECURSIVE Flatten(_)
Flatten(seqs) == IF seqs = <<>> THEN <<>> ELSE Head(seqs) \o Flatten(Tail(seqs))

\* the rules with the time keywords tried before the date keywords
CorrectedType_TimeFirst(col_name, col_type, is_auto_inc) ==
    LET t1 == IF is_auto_inc /\ Lower(col_type) = s_varchar
              THEN s_uc_bigint ELSE col_type
        n  == Lower(col_name)
    IN IF Lower(t1) # s_varchar THEN t1
       ELSE IF EndsWith(n, s_suffix_id) \/ n = s_id THEN s_uc_bigint
       ELSE IF Contains(n, s_hora) \/ Contains(n, s_time) THEN s_uc_time
       ELSE IF Contains(n, s_fecha) \/ Contains(n, s_date) THEN s_uc_date
       ELSE IF InList(n, <<s_edad, s_age, s_years>>) THEN s_uc_int
       ELSE IF \/ Contains(n, s_precio) \/ Contains(n, s_costo)
               \/ Contains(n, s_price) \/ Contains(n, s_cost)
            THEN s_uc_decimal
       ELSE t1

\* lines 82-117: the type of a column whose type is read as col_type
CorrectedType(col_name, col_type, is_auto_inc) ==
    LET t1 == IF is_auto_inc /\ Lower(col_type) = s_varchar
              THEN s_uc_bigint ELSE col_type
        n  == Lower(col_name)
    IN IF Lower(t1) # s_varchar THEN t1
       ELSE IF EndsWith(n, s_suffix_id) \/ n = s_id THEN s_uc_bigint
       ELSE IF Contains(n, s_fecha) \/ Contains(n, s_date)
            THEN IF \/ Contains(n, s_hora) \/ Contains(n, s_time)
                    \/ Contains(n, s_creacion) \/ Contains(n, s_reservacion)
                 THEN s_uc_datetime ELSE s_uc_date
       ELSE IF Contains(n, s_hora) \/ Contains(n, s_time) THEN s_uc_time
       ELSE IF InList(n, <<s_edad, s_age, s_years>>) THEN s_uc_int
       ELSE IF \/ Contains(n, s_precio) \/ Contains(n, s_costo)
               \/ Contains(n, s_price) \/ Contains(n, s_cost)
            THEN s_uc_decimal
       ELSE t1

\* lines 70-77: simple type preferred, last dot-separated segment kept
RawType(column_elem) ==
    LET chosen   == IF column_elem.simpleType # <<>>
                    THEN column_elem.simpleType ELSE column_elem.userType
        col_type == IF chosen = <<>> THEN s_varchar ELSE chosen
    IN IF HasChar(col_type, ".") THEN LastSegment(col_type, ".") ELSE col_type

_extract_column(column_elem) ==
    LET is_auto_inc == column_elem.autoIncrement = s_1
    IN [name           |-> column_elem.name,
        type           |-> CorrectedType(column_elem.name, RawType(column_elem),
                                         is_auto_inc),
        length         |-> column_elem.length,
        precision      |-> column_elem.precision,
        scale          |-> column_elem.scale,
        not_null       |-> column_elem.isNotNull = s_1,
        auto_increment |-> is_auto_inc,
        default        |-> column_elem.defaultValue,
        comment        |-> column_elem.comment]

\* lines 42-66, for one table element
TableInfo(table) ==
    LET columns == [i \in 1..Len(table.columns) |-> _extract_column(table.columns[i])]
    IN [name             |-> table.name,
        comment          |-> table.comment,
        columns          |-> columns,
        indexes          |-> <<>>,
        has_soft_deletes |-> \E i \in 1..Len(columns) : columns[i].name = s_deleted_at]

_extract_tables(root) == [i \in 1..Len(root.tables) |-> TableInfo(root.tables[i])]

\* lines 159-163: the (id, name) assignments to table_map, in document order
TableMap(root) ==
    LET entry(t) == IF t.id # <<>> /\ t.name # <<>> THEN << <<t.id, t.name>> >> ELSE <<>>
    IN Flatten([i \in 1..Len(root.tables) |-> entry(root.tables[i])])

\* lines 165-171: the (id, name) assignments to column_map, in document order
ColumnMap(root) ==
    LET entry(c) == IF c.id # <<>> /\ c.name # <<>> THEN << <<c.id, c.name>> >> ELSE <<>>
        ofTable(t) == Flatten([j \in 1..Len(t.columns) |-> entry(t.columns[j])])
    IN Flatten([i \in 1..Len(root.tables) |-> ofTable(root.tables[i])])

\* lines 187, 192: the name the map gives, or the raw identifier
ResolveTable(table_map, link) ==
    IF link # None /\ link # <<>> THEN DictGet(table_map, link, link) ELSE None

\* lines 196-200, 204-208
ResolveColumns(column_map, links) ==
    LET kept == SelectSeq(links, LAMBDA l : l # <<>>)
    IN [i \in 1..Len(kept) |-> DictGet(column_map, kept[i], kept[i])]

\* lines 174-214, for one foreign-key element
RelInfo(root, fk) ==
    [name           |-> fk.name,
     source_table   |-> ResolveTable(TableMap(root), fk.owner),
     target_table   |-> ResolveTable(TableMap(root), fk.referencedTable),
     source_columns |-> ResolveColumns(ColumnMap(root), fk.columns),
     target_columns |-> ResolveColumns(ColumnMap(root), fk.referencedColumns),
     on_delete      |-> GetText(fk.deleteRule, s_uc_restrict),
     on_update      |-> GetText(fk.updateRule, s_uc_restrict)]

_extract_relationships(root) == [i \in 1..Len(root.fks) |-> RelInfo(root, root.fks[i])]

\* lines 27-38: parse() returns True when the container opens, holds
\* document.mwb.xml and the document is well-formed
ParseSucceeds(document) == document.container = "ok"

---------------------------------------------------------------------------
(* LaravelGenerator: naming helpers.                                       *)

\* line 1236
_to_studly_case(string) ==
    LET words == SplitWords(ReplaceChar(string, "_", " "))
    IN Join([i \in 1..Len(words) |-> Capitalize(words[i])])

\* lines 1249-1257
irregulars_es ==
    << <<s_clientes, s_cliente>>, <<s_medicos, s_medico>>,
       <<s_servicios, s_servicio>>, <<s_horarios, s_horario>>,
       <<s_estatus, s_estatus>>, <<s_roles, s_rol>>, <<s_users, s_user>> >>

\* lines 1245-1272
_singular(word) ==
    LET word_lower == Lower(word) IN
    IF \E i \in 1..Len(irregulars_es) : irregulars_es[i][1] = word_lower
    THEN LET result == DictGet(irregulars_es, word_lower, word_lower)
         IN IF IsUpperChar(word[1]) THEN Capitalize(result) ELSE result
    ELSE IF EndsWith(word, s_ies) THEN Slice(word, 0, Len(word) - 3) \o s_y
    ELSE IF EndsWith(word, s_es) THEN Slice(word, 0, Len(word) - 2)
    ELSE IF EndsWith(word, s_s) THEN Slice(word, 0, Len(word) - 1)
    ELSE word

\* lines 542, 653, 845: the class name of a table's model
ModelName(table_name) == _to_studly_case(_singular(table_name))

\* lines 1238-1240
_to_camel_case(string) ==
    LET studly == _to_studly_case(string)
    IN IF studly # <<>> THEN <<LowerChar(studly[1])>> \o Tail(studly) ELSE <<>>

---------------------------------------------------------------------------
(* NamingHelper (src/helpers.py).                                          *)

\* lines 14-25: separators become spaces, each word is capitalized
to_studly_case(string) ==
    LET words == SplitWords(ReplaceChar(ReplaceChar(string, "-", " "), "_", " "))
    IN Join([i \in 1..Len(words) |-> Capitalize(words[i])])

\* lines 28-38
to_camel_case(string) ==
    LET studly == to_studly_case(string)
    IN IF studly # <<>> THEN <<LowerChar(studly[1])>> \o Tail(studly) ELSE <<>>

\* lines 78-87
irregulars_plural ==
    << <<s_person, s_people>>, <<s_man, s_men>>, <<s_woman, s_women>>,
       <<s_child, s_children>>, <<s_tooth, s_teeth>>, <<s_foot, s_feet>>,
       <<s_mouse, s_mice>>, <<s_goose, s_geese>> >>

\* lines 67-107
to_plural(word) ==
    LET word_lower == Lower(word) IN
    IF \E i \in 1..Len(irregulars_plural) : irregulars_plural[i][1] = word_lower
    THEN DictGet(irregulars_plural, word_lower, word_lower)
    ELSE IF /\ EndsWith(word, s_y) /\ Len(word) > 1
            /\ word[Len(word) - 1] \notin {"a", "e", "i", "o", "u"}
         THEN Slice(word, 0, Len(word) - 1) \o s_ies
    ELSE IF \E suffix \in {<<"s">>, <<"s", "s">>, <<"x">>, <<"z">>,
                            <<"c", "h">>, <<"s", "h">>} : EndsWith(word, suffix)
         THEN word \o s_es
    ELSE IF EndsWith(word, <<"f">>) THEN Slice(word, 0, Len(word) - 1) \o s_ves
    ELSE IF EndsWith(word, <<"f", "e">>) THEN Slice(word, 0, Len(word) - 2) \o s_ves
    ELSE word \o s_s

\* lines 120-129
irregulars_singular ==
    << <<s_people, s_person>>, <<s_men, s_man>>, <<s_women, s_woman>>,
       <<s_children, s_child>>, <<s_teeth, s_tooth>>, <<s_feet, s_foot>>,
       <<s_mice, s_mouse>>, <<s_geese, s_goose>> >>

\* lines 110-152
to_singular(word) ==
    LET word_lower == Lower(word) IN
    IF \E i \in 1..Len(irregulars_singular) : irregulars_singular[i][1] = word_lower
    THEN DictGet(irregulars_singular, word_lower, word_lower)
    ELSE IF EndsWith(word, s_ies) /\ Len(word) > 3
         THEN Slice(word, 0, Len(word) - 3) \o s_y
    ELSE IF EndsWith(word, s_ves) THEN Slice(word, 0, Len(word) - 3) \o <<"f">>
    ELSE IF \E suffix \in {<<"s", "e", "s">>, <<"x", "e", "s">>, <<"z", "e", "s">>,
                            <<"c", "h", "e", "s">>, <<"s", "h", "e", "s">>} :
               EndsWith(word, suffix)
         THEN Slice(word, 0, Len(word) - 2)
    ELSE IF EndsWith(word, s_s) /\ Len(word) > 1 THEN Slice(word, 0, Len(word) - 1)
    ELSE word

\* line 50: re.sub('(.)([A-Z][a-z]+)', r'\1_\2', string), scanning from
\* position i; a match takes one character, a capital and the longest run
\* of lowercase letters after it
RECURSIVE SubBeforeWord(_, _)
SubBeforeWord(string, i) ==
    IF i > Len(string) THEN <<>>
    ELSE IF /\ i + 2 <= Len(string)
            /\ IsUpperChar(string[i + 1])
            /\ IsLowerChar(string[i + 2])
         THEN LET j == CHOOSE j \in (i + 2)..Len(string) :
                          /\ \A k \in (i + 2)..j : IsLowerChar(string[k])
                          /\ j = Len(string) \/ ~IsLowerChar(string[j + 1])
              IN <<string[i], "_">> \o SubSeq(string, i + 1, j)
                    \o SubBeforeWord(string, j + 1)
         ELSE <<string[i]>> \o SubBeforeWord(string, i + 1)

\* line 51: re.sub('([a-z0-9])([A-Z])', r'\1_\2', string), scanning from
\* position i
RECURSIVE SubBeforeCapital(_, _)
SubBeforeCapital(string, i) ==
    IF i > Len(string) THEN <<>>
    ELSE IF /\ i + 1 <= Len(string)
            /\ IsLowerChar(string[i]) \/ string[i] \in Digits
            /\ IsUpperChar(string[i + 1])
         THEN <<string[i], "_", string[i + 1]>> \o SubBeforeCapital(string, i + 2)
         ELSE <<string[i]>> \o SubBeforeCapital(string, i + 1)

\* the conversion without the final lower-casing
to_snake_case_KeepCase(string) ==
    ReplaceChar(SubBeforeCapital(SubBeforeWord(string, 1), 1), "-", "_")

\* lines 41-54
to_snake_case(string) ==
    Lower(ReplaceChar(SubBeforeCapital(SubBeforeWord(string, 1), 1), "-", "_"))

---------------------------------------------------------------------------
(* LaravelGenerator: migration content.                                    *)

\* a truthy str-or-None value
Truthy(x) == x # None /\ x # <<>>

\* lines 409-435
type_map ==
    << <<s_int, "integer">>, <<s_integer, "integer">>,
       <<s_tinyint, "tinyInteger">>, <<s_smallint, "smallInteger">>,
       <<s_mediumint, "mediumInteger">>, <<s_bigint, "bigInteger">>,
       <<s_varchar, "string">>, <<s_char, "char">>, <<s_text, "text">>,
       <<s_mediumtext, "mediumText">>, <<s_longtext, "longText">>,
       <<s_decimal, "decimal">>, <<s_float, "float">>, <<s_double, "double">>,
       <<s_boolean, "boolean">>, <<s_bool, "boolean">>, <<s_date, "date">>,
       <<s_datetime, "dateTime">>, <<s_timestamp, "timestamp">>,
       <<s_time, "time">>, <<s_year, "year">>, <<s_json, "json">>,
       <<s_enum, "enum">>, <<s_blob, "binary">>, <<s_binary, "binary">> >>

\* line 407
BaseType(col) == Strip(FirstSegment(Strip(Lower(col.type)), "("))

\* line 437
LaravelType(col) == DictGet(type_map, BaseType(col), "string")

\* lines 489-499
_is_foreign_key_column(rels, column_name, table_name) ==
    \/ \E i \in 1..Len(rels) :
          /\ InList(column_name, rels[i].source_columns)
          /\ (table_name = None \/ rels[i].source_table = table_name)
    \/ (EndsWith(column_name, s_suffix_id) /\ column_name # s_id)

\* a column declaration "$table->method('name', args)" and its modifiers;
\* method "None" is the None result, method "ValueError" a raised ValueError
ColumnLine(method, name, args) ==
    [method |-> method, name |-> name, args |-> args, nullable |-> FALSE,
     autoIncrement |-> FALSE, default |-> None, default_quoted |-> FALSE,
     unique |-> FALSE, comment |-> None]

NoLine == ColumnLine("None", <<>>, <<>>)

RaisedLine == ColumnLine("ValueError", <<>>, <<>>)

\* lines 439-443: the integer types that make the id column $table->id()
IdTypes == <<s_bigint, s_int, s_integer>>

\* lines 452-456: the length argument of a string or char column; int()
\* raises ValueError on text it does not parse
LengthRaises(length) ==
    /\ ~(length = <<>> \/ length = s_minus1 \/ ~IsDigit(RemoveChar(length, "-")))
    /\ ~IntParses(length)

LengthArg(length) ==
    IF length = <<>> \/ length = s_minus1 \/ ~IsDigit(RemoveChar(length, "-"))
    THEN s_255
    ELSE IF IntValue(length) < 0 THEN s_255 ELSE length

\* lines 459-460
NumberOr(text, default) == IF text # <<>> /\ IsDigit(text) THEN text ELSE default

\* the unique columns, the name compared without lower-casing it
EmailUnique_CaseSensitive(name, laravel_type) ==
    Contains(name, s_email) /\ laravel_type = "string"

\* line 479: the columns that get ->unique()
EmailUnique(name, laravel_type) ==
    Contains(Lower(name), s_email) /\ laravel_type = "string"

\* line 483: str.replace("'", "\\'")
EscapeQuotes(text) ==
    Flatten([i \in 1..Len(text) |->
               IF text[i] = "'" THEN <<"\\", "'">> ELSE <<text[i]>>])

\* lines 451-467: the declaration before its modifiers
TypedLine(col, laravel_type) ==
    IF laravel_type \in {"string", "char"}
    THEN ColumnLine(laravel_type, col.name, <<LengthArg(col.length)>>)
    ELSE IF laravel_type = "decimal"
    THEN ColumnLine("decimal", col.name,
                    <<NumberOr(col.precision, s_8), NumberOr(col.scale, s_2)>>)
    ELSE IF laravel_type \in {"integer", "bigInteger", "tinyInteger",
                              "smallInteger", "mediumInteger"}
    THEN [ColumnLine(laravel_type, col.name, <<>>)
            EXCEPT !.autoIncrement = col.auto_increment]
    ELSE ColumnLine(laravel_type, col.name, <<>>)

\* lines 469-486: the modifiers
Modifiers(line, col, laravel_type) ==
    LET has_default == col.default # <<>>
                       /\ ~InList(col.default, <<s_uc_null, s_null, <<>> >>)
    IN [line EXCEPT
          !.nullable = (~col.not_null /\ col.name # s_id),
          !.default = IF has_default THEN col.default ELSE None,
          !.default_quoted = has_default /\ laravel_type \in
                               {"string", "char", "text", "mediumText", "longText"},
          !.unique = EmailUnique(col.name, laravel_type),
          !.comment = IF col.comment # <<>> THEN EscapeQuotes(col.comment) ELSE None]

\* lines 398-487
_column_to_migration(rels, col, table_name) ==
    LET name         == col.name
        laravel_type == LaravelType(col)
    IN IF _is_foreign_key_column(rels, name, table_name) THEN NoLine
       ELSE IF name = s_id
            THEN IF InList(BaseType(col), IdTypes)
                 THEN ColumnLine("id", <<>>, <<>>)
                 ELSE ColumnLine("string", s_id, <<>>)
       ELSE IF InList(name, <<s_created_at, s_updated_at>>) THEN NoLine
       ELSE IF name = s_deleted_at THEN NoLine
       ELSE IF laravel_type \in {"string", "char"} /\ LengthRaises(col.length)
            THEN RaisedLine
       ELSE Modifiers(TypedLine(col, laravel_type), col, laravel_type)

\* the delete action of a rule compared without lower-casing it
OnDeleteAction_CaseSensitive(on_delete) ==
    IF on_delete = s_cascade THEN "cascadeOnDelete"
    ELSE IF on_delete = s_set_null THEN "nullOnDelete"
    ELSE IF on_delete = s_restrict THEN "restrictOnDelete"
    ELSE "none"

\* lines 521-529: the delete action of a rule
OnDeleteAction(on_delete) ==
    IF Lower(on_delete) = s_cascade THEN "cascadeOnDelete"
    ELSE IF Lower(on_delete) = s_set_null THEN "nullOnDelete"
    ELSE IF Lower(on_delete) = s_restrict THEN "restrictOnDelete"
    ELSE "none"

\* lines 531-534
OnUpdateAction(on_update) ==
    IF Lower(on_update) = s_cascade THEN "cascadeOnUpdate"
    ELSE IF Lower(on_update) = s_restrict THEN "restrictOnUpdate"
    ELSE "none"

\* lines 509-515
IsNullable(tabs, rel, source_col) ==
    \E i \in 1..Len(tabs) :
       /\ tabs[i].name = rel.source_table
       /\ \E j \in 1..Len(tabs[i].columns) :
             /\ tabs[i].columns[j].name = source_col
             /\ ~tabs[i].columns[j].not_null

\* the clause "$table->foreignId(column)...->constrained(constrained)...";
\* column None is the empty result
ForeignKeyClause(column, nullable, constrained, on_delete, on_update) ==
    [column |-> column, nullable |-> nullable, constrained |-> constrained,
     on_delete |-> on_delete, on_update |-> on_update]

NoClause == ForeignKeyClause(None, FALSE, None, "none", "none")

\* lines 501-537
_relationship_to_migration(tabs, rel) ==
    IF rel.source_columns = <<>> \/ rel.target_columns = <<>> THEN NoClause
    ELSE ForeignKeyClause(rel.source_columns[1],
                          IsNullable(tabs, rel, rel.source_columns[1]),
                          rel.target_table,
                          OnDeleteAction(rel.on_delete),
                          OnUpdateAction(rel.on_update))

\* lines 346-349: every column's result, in column order
ColumnResults(rels, table) ==
    [i \in 1..Len(table.columns) |->
       _column_to_migration(rels, table.columns[i], table.name)]

\* the directives without the soft-delete one
SpecialColumns_NoSoftDeletes(table) == <<"timestamps">>

\* lines 360-364
SpecialColumns(table) ==
    <<"timestamps">> \o (IF table.has_soft_deletes THEN <<"softDeletes">> ELSE <<>>)

\* lines 341-396; raises when a column does
MigrationRaises(rels, table) ==
    \E i \in 1..Len(table.columns) : ColumnResults(rels, table)[i] = RaisedLine

_generate_migration_content(tabs, rels, table) ==
    LET mine == SelectSeq(rels, LAMBDA r : r.source_table = table.name)
        fks  == [i \in 1..Len(mine) |-> _relationship_to_migration(tabs, mine[i])]
    IN [table_name      |-> table.name,
        columns_code    |-> SelectSeq(ColumnResults(rels, table),
                                      LAMBDA l : l # NoLine),
        fk_code         |-> SelectSeq(fks, LAMBDA c : c # NoClause),
        special_columns |-> SpecialColumns(table)]

---------------------------------------------------------------------------
(* LaravelGenerator: dependency sort.                                      *)

\* the keys of {table['name']: ... for table in tables}, in dict order
DictKeys(names) ==
    LET firsts == {i \in 1..Len(names) : \A j \in 1..(i - 1) : names[j] # names[i]}
    IN [k \in 1..Cardinality(firsts) |->
          names[CHOOSE i \in firsts : Cardinality({j \in firsts : j < i}) = k - 1]]

TableNames(tabs) == [i \in 1..Len(tabs) |-> tabs[i].name]

\* line 245: the relationships that add a dependency
Dependencies(rels) ==
    SelectSeq(rels, LAMBDA r : Truthy(r.source_table) /\ Truthy(r.target_table))

\* line 246: dependency_map[source] raises KeyError for a source that is no key
DependencyMapRaises(tabs, rels) ==
    \E i \in 1..Len(Dependencies(rels)) :
       ~InList(Dependencies(rels)[i].source_table, TableNames(tabs))

\* lines 239-246: the dict as its (name, dependencies) items in dict order
DependencyMap(tabs, rels) ==
    LET keys == DictKeys(TableNames(tabs))
        deps(name) == {Dependencies(rels)[i].target_table :
                         i \in {k \in 1..Len(Dependencies(rels)) :
                                  Dependencies(rels)[k].source_table = name}}
    IN [i \in 1..Len(keys) |-> [name |-> keys[i], deps |-> deps(keys[i])]]

IsKey(map, name) == \E i \in 1..Len(map) : map[i].name = name

DepsOf(map, name) == map[CHOOSE i \in 1..Len(map) : map[i].name = name].deps

\* the tables in the reverse of the order of sorted_tables
Ordered_Reversed(tabs, sorted) ==
    Flatten([i \in 1..Len(sorted) |->
               SelectSeq(tabs, LAMBDA t : t.name = sorted[Len(sorted) + 1 - i])])

\* lines 264-268: the tables in the order of sorted_tables
\* the inner loop leaving at the first table of the name
Ordered_FirstMatch(tabs, sorted) ==
    [i \in 1..Len(sorted) |->
       tabs[CHOOSE k \in 1..Len(tabs) :
              /\ tabs[k].name = sorted[i]
              /\ \A j \in 1..(k - 1) : tabs[j].name # sorted[i]]]

Ordered(tabs, sorted) ==
    Flatten([i \in 1..Len(sorted) |->
               SelectSeq(tabs, LAMBDA t : t.name = sorted[i])])

---------------------------------------------------------------------------
(* The run: main() of src/laravel_generator.py.                            *)

VARIABLES
    document,          \* the .mwb file given on the command line
    pc,                \* where main() is
    generator,         \* TRUE once LaravelGenerator is constructed
    tables,            \* parser.tables, then generator.tables
    relationships,     \* parser.relationships, then generator.relationships
    migration_counter, \* generator.migration_counter
    clock,             \* the second datetime.now() is in
    dependency_map,    \* locals of _sort_tables_by_dependencies
    visited,
    sorted_tables,
    stack,             \* the active calls of visit(), innermost last
    cursor,            \* index of the running for loop
    artifact,          \* index into TableArtifacts within the table loop
    fs,                \* the five output directories, and "." for the
                       \* other entries of output_dir
    trace,             \* the stages performed so far, in order
    naming             \* a chain of calls of the name converters

vars == <<document, pc, generator, tables, relationships, migration_counter, clock,
          dependency_map, visited, sorted_tables, stack, cursor, artifact,
          fs, trace, naming>>

sort_locals == <<dependency_map, visited, sorted_tables, stack>>

\* lines 310-316
OutputDirs == <<"migrations", "models", "controllers", "routes", "seeders">>

SEEDER_EXCLUDED_TABLES_NoStatus == {s_users, s_rol, s_estatus, s_roles}

\* line 226
SEEDER_EXCLUDED_TABLES == {s_users, s_rol, s_estatus, s_roles, s_status}

\* the artifacts of one table with the model written first
TableArtifacts_ModelFirst == <<"model", "migration", "controller", "seeder">>

\* lines 280-291: the artifacts of one table, in the order generate_all
\* writes them
TableArtifacts == <<"migration", "model", "controller", "seeder">>

Event(op, table_name) == [op |-> op, table |-> table_name]

File(name, content) == [name |-> name, content |-> content]

\* open(filepath, 'w') and write: replaces the file of that name
WriteFile(dir, file) ==
    LET old == fs[dir].files
    IN [fs EXCEPT ![dir].files =
          IF \E i \in 1..Len(old) : old[i].name = file.name
          THEN [i \in 1..Len(old) |->
                  IF old[i].name = file.name THEN file ELSE old[i]]
          ELSE Append(old, file)]

\* main going on to generate whatever parse() returned
MainProceeds_Always(parse_result) == TRUE

\* line 1296: main goes on to generate when parse() returned True
MainProceeds(parse_result) == parse_result

\* lines 1294-1305: parse, exit on failure, else construct the generator
Parse ==
    /\ pc = "parse"
    /\ tables' = IF ParseSucceeds(document) THEN _extract_tables(document) ELSE <<>>
    /\ relationships' = IF ParseSucceeds(document)
                        THEN _extract_relationships(document) ELSE <<>>
    /\ IF MainProceeds(ParseSucceeds(document))
       THEN /\ generator' = TRUE
            /\ migration_counter' = 1
            /\ pc' = "create_directories"
            /\ trace' = Append(trace, Event("extract", <<>>))
       ELSE /\ pc' = "exit1"
            /\ UNCHANGED <<generator, migration_counter, trace>>
    /\ UNCHANGED <<document, clock, naming, sort_locals, cursor, artifact, fs>>

\* os.makedirs(dir_path) on a directory left in place
CleanDirectory_Keep(dir) == [exists |-> TRUE, files |-> dir.files]

\* lines 318-321: rmtree if the directory exists, then makedirs
CleanDirectory(dir) == [exists |-> TRUE, files |-> <<>>]

\* lines 308-321; makedirs also creates output_dir ("."), whose other
\* entries it leaves alone
_create_directories ==
    /\ pc = "create_directories"
    /\ fs' = [d \in DOMAIN fs |->
                IF InList(d, OutputDirs) THEN CleanDirectory(fs[d])
                ELSE [exists |-> TRUE, files |-> fs[d].files]]
    /\ trace' = Append(trace, Event("create_directories", <<>>))
    /\ pc' = "sort"
    /\ UNCHANGED <<document, clock, naming, generator, tables, relationships, migration_counter,
                   sort_locals, cursor, artifact>>

\* lines 239-249
SortBegin ==
    /\ pc = "sort"
    /\ IF DependencyMapRaises(tables, relationships)
       THEN /\ pc' = "raised"
            /\ UNCHANGED <<sort_locals, cursor>>
       ELSE /\ dependency_map' = DependencyMap(tables, relationships)
            /\ visited' = {}
            /\ sorted_tables' = <<>>
            /\ stack' = <<>>
            /\ cursor' = 1
            /\ pc' = "visit"
    /\ UNCHANGED <<document, clock, naming, generator, tables, relationships, migration_counter,
                   artifact, fs, trace>>

Frame(name, todo) == [name |-> name, todo |-> todo]

\* a visit that never finds its table visited
AlreadyVisited_Never(seen, table_name) == FALSE

\* lines 252-253: if table_name in visited: return
AlreadyVisited(seen, table_name) == table_name \in seen

\* lines 261-262 and 252-254: the loop calls visit on the next key
VisitTable ==
    /\ pc = "visit"
    /\ stack = <<>>
    /\ cursor <= Len(dependency_map)
    /\ LET table_name == dependency_map[cursor].name
       IN IF AlreadyVisited(visited, table_name)
          THEN UNCHANGED <<visited, stack>>
          ELSE /\ visited' = visited \cup {table_name}
               /\ stack' = <<Frame(table_name, DepsOf(dependency_map, table_name))>>
    /\ cursor' = cursor + 1
    /\ UNCHANGED <<document, clock, naming, pc, generator, tables, relationships,
                   migration_counter, dependency_map, sorted_tables, artifact,
                   fs, trace>>

\* lines 256-257 and 252-256: the innermost call visits one more dependency,
\* taken in the set's iteration order; dependency_map[dep] raises KeyError
\* for a name that is no key
VisitDependency ==
    /\ pc = "visit"
    /\ stack # <<>>
    /\ \E dep \in stack[Len(stack)].todo :
          LET rest == [stack EXCEPT ![Len(stack)].todo = @ \ {dep}]
          IN IF AlreadyVisited(visited, dep)
             THEN /\ stack' = rest
                  /\ UNCHANGED <<visited, pc>>
             ELSE /\ visited' = visited \cup {dep}
                  /\ IF IsKey(dependency_map, dep)
                     THEN /\ stack' = Append(rest, Frame(dep, DepsOf(dependency_map, dep)))
                          /\ pc' = pc
                     ELSE /\ stack' = rest
                          /\ pc' = "raised"
    /\ UNCHANGED <<document, clock, naming, generator, tables, relationships, migration_counter,
                   dependency_map, sorted_tables, cursor, artifact, fs, trace>>

\* line 259: the innermost call has visited its dependencies
VisitReturn ==
    /\ pc = "visit"
    /\ stack # <<>>
    /\ stack[Len(stack)].todo = {}
    /\ sorted_tables' = Append(sorted_tables, stack[Len(stack)].name)
    /\ stack' = SubSeq(stack, 1, Len(stack) - 1)
    /\ UNCHANGED <<document, clock, naming, pc, generator, tables, relationships,
                   migration_counter, dependency_map, visited, cursor, artifact,
                   fs, trace>>

\* lines 264-270, then line 277
SortEnd ==
    /\ pc = "visit"
    /\ stack = <<>>
    /\ cursor > Len(dependency_map)
    /\ tables' = Ordered(tables, sorted_tables)
    /\ dependency_map' = <<>>
    /\ visited' = {}
    /\ sorted_tables' = <<>>
    /\ cursor' = 1
    /\ artifact' = 1
    /\ trace' = Append(trace, Event("sort", <<>>))
    /\ pc' = IF tables' = <<>> THEN "routes" ELSE "emit"
    /\ UNCHANGED <<document, clock, naming, generator, relationships, migration_counter, stack, fs>>

\* str(n)
RECURSIVE NatText(_)
NatText(n) ==
    IF n < 10 THEN <<DigitSeq[n + 1]>>
    ELSE NatText(n \div 10) \o <<DigitSeq[(n % 10) + 1]>>

\* f"{n:02d}" and str(n).zfill(2)
TwoDigits(n) == IF n < 10 THEN <<"0">> \o NatText(n) ELSE NatText(n)

\* line 329: strftime('%Y_%m_%d_%H%M%S') of a time in the minute the run
\* starts in
Timestamp(now) == s_minute \o TwoDigits(now)

\* lines 329-331
MigrationFileName(now, counter, table_name) ==
    Timestamp(now) \o <<"_">> \o TwoDigits(counter) \o <<"_">>
      \o TwoDigits(counter) \o <<"_">>
      \o s_create_ \o table_name \o s__table \o s_dot_php

\* line 1242
_to_kebab_case(string) == Lower(ReplaceChar(string, "_", "-"))

\* the table after table index cur, artifact index art
Advance(cur, art) ==
    IF art < Len(TableArtifacts) THEN <<cur, art + 1>> ELSE <<cur + 1, 1>>

AdvanceTable ==
    /\ cursor' = Advance(cursor, artifact)[1]
    /\ artifact' = Advance(cursor, artifact)[2]
    /\ pc' = IF cursor' > Len(tables) THEN "routes" ELSE "emit"

\* lines 323-339
generate_migration ==
    /\ pc = "emit"
    /\ TableArtifacts[artifact] = "migration"
    /\ LET table == tables[cursor]
       IN IF MigrationRaises(relationships, table)
          THEN /\ pc' = "raised"
               /\ UNCHANGED <<fs, migration_counter, trace, cursor, artifact>>
          ELSE /\ fs' = WriteFile("migrations",
                          File(MigrationFileName(clock, migration_counter, table.name),
                               _generate_migration_content(tables, relationships, table)))
               /\ migration_counter' = migration_counter + 1
               /\ trace' = Append(trace, Event("migration", table.name))
               /\ AdvanceTable
    /\ UNCHANGED <<document, clock, naming, generator, tables, relationships, sort_locals>>

\* rel['source_columns'][0] if rel['source_columns'] else 'id'
FirstOr(columns, default) == IF columns # <<>> THEN columns[1] ELSE default

Accessor(kind, method_name, related, column) ==
    [kind |-> kind, method_name |-> method_name, related |-> related,
     column |-> column]

\* lines 620-648: the accessors of a model, belongsTo first
_generate_relationships(rels, table_name) ==
    LET outgoing == SelectSeq(rels, LAMBDA rel : rel.source_table = table_name)
        incoming == SelectSeq(rels, LAMBDA rel : rel.target_table = table_name)
    IN [i \in 1..Len(outgoing) |->
          Accessor("belongsTo",
                   _to_camel_case(_singular(outgoing[i].target_table)),
                   _to_studly_case(_singular(outgoing[i].target_table)),
                   FirstOr(outgoing[i].source_columns, s_id))]
       \o
       [i \in 1..Len(incoming) |->
          Accessor("hasMany",
                   _to_camel_case(incoming[i].source_table),
                   _to_studly_case(_singular(incoming[i].source_table)),
                   FirstOr(incoming[i].source_columns, s_id))]

\* lines 550-618: the parts of the model class that depend on the schema
_generate_model_content(rels, table) ==
    [table_name    |-> table.name,
     relationships |-> _generate_relationships(rels, table.name)]

\* lines 282-285 and 539-548
generate_model ==
    /\ pc = "emit"
    /\ TableArtifacts[artifact] = "model"
    /\ LET table == tables[cursor]
       IN IF Lower(table.name) # s_users
          THEN /\ fs' = WriteFile("models",
                          File(ModelName(table.name) \o s_dot_php,
                               _generate_model_content(relationships, table)))
               /\ trace' = Append(trace, Event("model", table.name))
          ELSE UNCHANGED <<fs, trace>>
    /\ AdvanceTable
    /\ UNCHANGED <<document, clock, naming, generator, tables, relationships, migration_counter,
                   sort_locals>>

\* lines 803-820: the rule of the column's type, none for other types
TypeRuleParts(col) ==
    LET col_type == Lower(col.type) IN
    IF InList(col_type, <<s_int, s_tinyint, s_smallint, s_mediumint, s_bigint>>)
    THEN <<s_integer>>
    ELSE IF InList(col_type, <<s_decimal, s_float, s_double>>) THEN <<s_numeric>>
    ELSE IF InList(col_type, <<s_varchar, s_char, s_text, s_mediumtext, s_longtext>>)
         THEN IF Truthy(col.length) THEN <<s_string, s_max_colon \o col.length>>
              ELSE <<s_string>>
    ELSE IF col_type = s_date THEN <<s_date>>
    ELSE IF InList(col_type, <<s_datetime, s_timestamp>>) THEN <<s_date>>
    ELSE IF col_type = s_boolean THEN <<s_boolean>>
    ELSE IF col_type = s_json THEN <<s_array>>
    ELSE <<>>

\* lines 822-829: the existence rule of the first relationship of the table
\* that has the column among its source columns
ExistsRuleParts(rels, table, col) ==
    LET matching == SelectSeq(rels, LAMBDA rel :
                       /\ rel.source_table = table.name
                       /\ InList(col.name, rel.source_columns))
    IN IF matching = <<>> THEN <<>>
       ELSE << s_exists_colon \o matching[1].target_table \o <<",">>
                 \o FirstOr(matching[1].target_columns, s_id) >>

\* lines 791-836: one rule per column but the key and the timestamps
_generate_validation_rules(rels, table) ==
    LET cols == SelectSeq(table.columns, LAMBDA col :
                   ~InList(col.name, <<s_id, s_created_at, s_updated_at, s_deleted_at>>))
    IN [i \in 1..Len(cols) |->
          [column |-> cols[i].name,
           parts  |-> <<IF cols[i].not_null THEN s_required ELSE s_nullable>>
                        \o TypeRuleParts(cols[i])
                        \o ExistsRuleParts(rels, table, cols[i])]]

\* lines 662-667: the parts of the controller class that depend on the schema
\* lines 768-771 and 781-784: the accessors named in with() and load()
RelationNames(rels, table_name) ==
    LET own == SelectSeq(rels, LAMBDA rel : rel.source_table = table_name)
    IN [i \in 1..Len(own) |-> _to_camel_case(_singular(own[i].target_table))]

\* lines 764-775
_get_with_relations(rels, table_name) == RelationNames(rels, table_name)

\* lines 777-789: the variable the relations are loaded on and the
\* relations, or nothing to load
_get_load_relations_string(rels, table_name) ==
    LET relations == RelationNames(rels, table_name)
    IN IF relations # <<>>
       THEN [var_name  |-> _to_camel_case(_singular(table_name)),
             relations |-> relations]
       ELSE [var_name |-> <<>>, relations |-> <<>>]

\* lines 662-762: var_name is the variable the create, read and update
\* handlers declare for the model instance
_generate_controller_content(rels, table) ==
    [table_name       |-> table.name,
     validation_rules |-> _generate_validation_rules(rels, table),
     var_name         |-> _to_camel_case(ModelName(table.name)),
     with_relations   |-> _get_with_relations(rels, table.name),
     load_relations   |-> _get_load_relations_string(rels, table.name)]

\* lines 287 and 650-660
generate_controller ==
    /\ pc = "emit"
    /\ TableArtifacts[artifact] = "controller"
    /\ LET table == tables[cursor]
       IN /\ fs' = WriteFile("controllers",
                     File(ModelName(table.name) \o s_Controller \o s_dot_php,
                          _generate_controller_content(relationships, table)))
          /\ trace' = Append(trace, Event("controller", table.name))
    /\ AdvanceTable
    /\ UNCHANGED <<document, clock, naming, generator, tables, relationships, migration_counter,
                   sort_locals>>

\* lines 290-293 and 842-854
\* lines 913-914 and 937-938: the variable holding the identifiers of the
\* rows of a target table
FkVariable(target_table) ==
    <<"$">> \o _to_camel_case(_to_studly_case(_singular(target_table))) \o s_Ids

\* lines 900-921: the identifier lists the setup section declares, one per
\* target table of the table's relationships, in order of first occurrence
_build_fk_setup(rels, table) ==
    LET own == SelectSeq(rels, LAMBDA rel :
                  rel.source_table = table.name /\ Truthy(rel.target_table))
        seen_tables == DictKeys([i \in 1..Len(own) |-> own[i].target_table])
    IN [i \in 1..Len(seen_tables) |->
          [var_ids      |-> FkVariable(seen_tables[i]),
           target_model |-> _to_studly_case(_singular(seen_tables[i]))]]

\* the first relationship of any table with the column among its source
\* columns
_get_fk_relation_AnyTable(rels, column_name, table_name) ==
    LET matching == SelectSeq(rels, LAMBDA rel :
                       InList(column_name, rel.source_columns))
    IN IF matching = <<>> THEN <<>> ELSE <<matching[1]>>

\* lines 962-967: the first relationship of the table with the column among
\* its source columns, as a sequence of none or one
_get_fk_relation(rels, column_name, table_name) ==
    LET matching == SelectSeq(rels, LAMBDA rel :
                       /\ rel.source_table = table_name
                       /\ InList(column_name, rel.source_columns))
    IN IF matching = <<>> THEN <<>> ELSE <<matching[1]>>

\* lines 923-960: one line per column other than the automatic ones; the
\* Faker expression of a column that is no foreign key is left out
_build_faker_fields(rels, table) ==
    LET cols == SelectSeq(table.columns, LAMBDA col :
                   col.name \notin {s_id, s_created_at, s_updated_at, s_deleted_at})
    IN [i \in 1..Len(cols) |->
          LET fk_rel == _get_fk_relation(rels, cols[i].name, table.name)
              is_nullable == ~cols[i].not_null
          IN IF fk_rel # <<>>
             THEN [column   |-> cols[i].name,
                   var_ids  |-> FkVariable(fk_rel[1].target_table),
                   fallback |-> IF is_nullable THEN s_null ELSE s_1,
                   optional |-> FALSE]
             ELSE [column   |-> cols[i].name,
                   var_ids  |-> <<>>,
                   fallback |-> <<>>,
                   optional |-> is_nullable]]

\* lines 856-898
_generate_seeder_content(rels, table) ==
    [table_name   |-> table.name,
     fk_setup     |-> _build_fk_setup(rels, table),
     faker_fields |-> _build_faker_fields(rels, table)]

generate_seeder ==
    /\ pc = "emit"
    /\ TableArtifacts[artifact] = "seeder"
    /\ LET table == tables[cursor]
       IN IF Lower(table.name) \notin SEEDER_EXCLUDED_TABLES
          THEN /\ fs' = WriteFile("seeders",
                          File(ModelName(table.name) \o s_Seeder \o s_dot_php,
                               _generate_seeder_content(relationships, table)))
               /\ trace' = Append(trace, Event("seeder", table.name))
          ELSE UNCHANGED <<fs, trace>>
    /\ AdvanceTable
    /\ UNCHANGED <<document, clock, naming, generator, tables, relationships, migration_counter,
                   sort_locals>>

\* lines 1197-1208: one route per table
Routes(tabs) ==
    [i \in 1..Len(tabs) |->
       [route      |-> _to_kebab_case(tabs[i].name),
        controller |-> ModelName(tabs[i].name) \o s_Controller]]

\* lines 1195-1229
generate_routes ==
    /\ pc = "routes"
    /\ fs' = WriteFile("routes", File(s_api_php, Routes(tables)))
    /\ trace' = Append(trace, Event("routes", <<>>))
    /\ pc' = "database_seeder"
    /\ UNCHANGED <<document, clock, naming, generator, tables, relationships, migration_counter,
                   sort_locals, cursor, artifact>>

\* line 1147
original_seeders == <<s_RolSeeder, s_EstatusSeeder, s_UserSeeder>>

generated_seeders_Unfiltered(tabs) ==
    [i \in 1..Len(tabs) |-> ModelName(tabs[i].name) \o s_Seeder]

\* lines 1150-1154
generated_seeders(tabs) ==
    LET kept == SelectSeq(tabs, LAMBDA t : Lower(t.name) \notin SEEDER_EXCLUDED_TABLES)
    IN [i \in 1..Len(kept) |-> ModelName(kept[i].name) \o s_Seeder]

\* lines 1140-1189
generate_database_seeder ==
    /\ pc = "database_seeder"
    /\ fs' = WriteFile("seeders",
               File(s_DatabaseSeeder_php, original_seeders \o generated_seeders(tables)))
    /\ trace' = Append(trace, Event("database_seeder", <<>>))
    /\ pc' = "done"
    /\ UNCHANGED <<document, clock, naming, generator, tables, relationships, migration_counter,
                   sort_locals, cursor, artifact>>

Next ==
    \/ Parse
    \/ _create_directories
    \/ SortBegin
    \/ VisitTable
    \/ VisitDependency
    \/ VisitReturn
    \/ SortEnd
    \/ generate_migration
    \/ generate_model
    \/ generate_controller
    \/ generate_seeder
    \/ generate_routes
    \/ generate_database_seeder

\* the seconds the clock can advance by during a run
MaxClock == 1

\* line 329: datetime.now() has moved on to the next second when a
\* migration is about to be stamped
Tick ==
    /\ pc = "emit"
    /\ TableArtifacts[artifact] = "migration"
    /\ clock < MaxClock
    /\ clock' = clock + 1
    /\ UNCHANGED <<document, pc, generator, tables, relationships,
                   migration_counter, sort_locals, cursor, artifact, fs, trace,
                   naming>>

NextClock ==
    \/ Next
    \/ Tick

---------------------------------------------------------------------------
(* The name converters called one after another on an identifier.          *)

\* no converter has been called
NoNaming == [identifier |-> <<>>, value |-> <<>>, applied |-> <<>>, limit |-> 0]

\* the calls chained on one identifier
MaxApplied == 2

\* the converter's result replaces the value it was called on
Called(converter, result) ==
    /\ pc = "naming"
    /\ Len(naming.applied) < naming.limit
    /\ naming' = [naming EXCEPT !.value = result,
                                !.applied = Append(@, converter)]
    /\ UNCHANGED <<document, pc, generator, tables, relationships,
                   migration_counter, clock, sort_locals, cursor, artifact,
                   fs, trace>>

\* NamingHelper.to_studly_case(value)
HelperStudly == Called("NamingHelper.to_studly_case", to_studly_case(naming.value))

\* NamingHelper.to_camel_case(value)
HelperCamel == Called("NamingHelper.to_camel_case", to_camel_case(naming.value))

\* LaravelGenerator._to_studly_case(value)
GeneratorStudly == Called("_to_studly_case", _to_studly_case(naming.value))

\* LaravelGenerator._to_camel_case(value)
GeneratorCamel == Called("_to_camel_case", _to_camel_case(naming.value))

NextNaming ==
    \/ HelperStudly
    \/ HelperCamel
    \/ GeneratorStudly
    \/ GeneratorCamel

\* NamingHelper.to_plural(value)
HelperPlural == Called("NamingHelper.to_plural", to_plural(naming.value))

\* NamingHelper.to_singular(value)
HelperSingular == Called("NamingHelper.to_singular", to_singular(naming.value))

\* LaravelGenerator._singular(value)
GeneratorSingular == Called("_singular", _singular(naming.value))

NextInflect ==
    \/ HelperPlural
    \/ HelperSingular
    \/ GeneratorSingular

\* NamingHelper.to_snake_case(value)
HelperSnake == Called("NamingHelper.to_snake_case", to_snake_case(naming.value))

\* the calls chained when the snake-case form is converted back and forth
MaxChain == 6

NextSnake ==
    \/ HelperSnake
    \/ HelperStudly

---------------------------------------------------------------------------
(* The model documents the run is checked on.                              *)

MaxTables == 3
MaxFks == 2
MaxColumns == 3
MaxLengthText == 3

Min(a, b) == IF a < b THEN a ELSE b

\* the elements of seq whose index is in S, in order
Pick(seq, S) ==
    LET F[i \in 0..Len(seq)] ==
          IF i = 0 THEN <<>>
          ELSE IF i \in S THEN Append(F[i - 1], seq[i]) ELSE F[i - 1]
    IN F[Len(seq)]

\* the sub-sequences of seq of at most k elements
SubSeqs(seq, k) ==
    {Pick(seq, S) : S \in {T \in SUBSET (1..Len(seq)) : Cardinality(T) <= k}}

XColumn(id, name, type, length, notnull, autoinc) ==
    [id |-> id, name |-> name, simpleType |-> type, userType |-> <<>>,
     length |-> length, precision |-> <<>>, scale |-> <<>>,
     isNotNull |-> notnull, autoIncrement |-> autoinc,
     defaultValue |-> <<>>, comment |-> <<>>]

XTable(id, name, columns) ==
    [id |-> id, name |-> name, comment |-> <<>>, columns |-> columns]

XForeignKey(owner, referencedTable, columns, referencedColumns, rule) ==
    [name |-> <<"f", "k">>, owner |-> owner, referencedTable |-> referencedTable,
     columns |-> columns, referencedColumns |-> referencedColumns,
     deleteRule |-> rule, updateRule |-> rule]

XDocument(container, xtables, fks) ==
    [container |-> container, tables |-> xtables, fks |-> fks]

\* identifiers of the document's elements; table 0 is in no document
TableId(i) == IF i = 0 THEN <<"T", "?">> ELSE <<"T", DigitSeq[i + 1]>>

ColumnId(i, j) == TableId(i) \o <<"C", DigitSeq[j + 1]>>

TableNamePool == <<s_users, s_posts, s_tags, s_roles, s_items>>

\* a table with a primary key and one foreign-key column
GraphTable(i) ==
    XTable(TableId(i), TableNamePool[i],
           <<XColumn(ColumnId(i, 1), s_id, s_int, <<>>, s_1, s_1),
             XColumn(ColumnId(i, 2), s_parent_id, s_varchar, <<>>, <<>>, <<>>)>>)

\* the foreign key of table o to table r
GraphFk(o, r) ==
    XForeignKey(TableId(o), TableId(r), <<ColumnId(o, 2)>>, <<ColumnId(r, 1)>>, <<>>)

\* every foreign key between n tables, and two with an unknown identifier
GraphFkPool(n) ==
    LET F[k \in 0..(n * n)] ==
          IF k = 0 THEN <<>>
          ELSE Append(F[k - 1], GraphFk(((k - 1) \div n) + 1, ((k - 1) % n) + 1))
    IN F[n * n] \o <<GraphFk(1, 0), GraphFk(0, 1)>>

GraphDocuments ==
    UNION {
      {XDocument("ok", [i \in 1..n |-> GraphTable(i)], fks) :
         fks \in SubSeqs(GraphFkPool(n), MaxFks)} :
      n \in 1..Min(MaxTables, Len(TableNamePool))}

\* the columns a posts table is drawn from
PostsColumnPool ==
    <<XColumn(ColumnId(2, 1), s_id, s_int, <<>>, s_1, s_1),
      XColumn(ColumnId(2, 2), s_user_id, s_varchar, <<>>, s_1, <<>>),
      XColumn(ColumnId(2, 3), s_author_id, s_int, <<>>, <<>>, <<>>),
      XColumn(ColumnId(2, 4), s_category_id, s_int, <<>>, s_1, <<>>),
      XColumn(ColumnId(2, 5), s_title, s_varchar, s_100, s_1, <<>>),
      XColumn(ColumnId(2, 6), s_email, s_varchar, <<>>, <<>>, <<>>),
      XColumn(ColumnId(2, 7), s_created_at, s_datetime, <<>>, <<>>, <<>>),
      XColumn(ColumnId(2, 8), s_deleted_at, s_datetime, <<>>, <<>>, <<>>)>>

DeleteRules == {<<>>, s_uc_cascade, s_uc_set_null, s_uc_restrict, s_uc_no_action}

\* a foreign key of posts (table 2) to users (table 1) on column j
PostsFk(j, referencedColumns, rule) ==
    XForeignKey(TableId(2), TableId(1), <<ColumnId(2, j)>>, referencedColumns, rule)

PostsFkLists ==
    {<<>>}
    \cup {<<PostsFk(j, <<ColumnId(1, 1)>>, rule)>> : j \in {2, 3}, rule \in DeleteRules}
    \cup {<<PostsFk(j, <<>>, <<>>)>> : j \in {2, 3}}
    \cup {<<PostsFk(j, <<ColumnId(1, 1)>>, <<>>),
            PostsFk(3, <<ColumnId(1, 1)>>, <<>>)>> : j \in {2, 3}}
    \cup {<<XForeignKey(TableId(2), TableId(1), <<ColumnId(2, 2), ColumnId(2, 3)>>,
                        <<ColumnId(1, 1), ColumnId(1, 1)>>, <<>>)>>}

UsersTable ==
    XTable(TableId(1), s_users,
           <<XColumn(ColumnId(1, 1), s_id, s_bigint, <<>>, s_1, s_1)>>)

MigrationDocuments ==
    {XDocument("ok", <<UsersTable, XTable(TableId(2), s_posts, columns)>>, fks) :
       columns \in SubSeqs(PostsColumnPool, MaxColumns), fks \in PostsFkLists}

\* the declared lengths: every text of at most MaxLengthText characters
LengthAlphabet == {"5", "0", "-", "x"}

LengthTexts == UNION {[1..n -> LengthAlphabet] : n \in 0..MaxLengthText}

ColumnTypes ==
    {<<>>, s_varchar, s_uc_varchar, s_varchar_45, s_char, s_text, s_int,
     s_integer, s_tinyint, s_smallint, s_uc_smallint, s_mediumint, s_bigint,
     s_decimal, s_datetime, s_geometry, s_qualified_int}

ColumnNames == {s_id, s_title, s_email, s_uc_email, s_user_email, s_email_id}

OneColumnDocument(column) ==
    XDocument("ok", <<XTable(TableId(1), s_items, <<column>>)>>, <<>>)

ColumnDocuments ==
    {OneColumnDocument(XColumn(ColumnId(1, 1), name, type, length, <<>>, <<>>)) :
       name \in {s_title, s_email}, type \in {s_varchar, s_char},
       length \in LengthTexts}
    \cup
    {OneColumnDocument(XColumn(ColumnId(1, 1), name, type, length, flag, flag)) :
       name \in ColumnNames, type \in ColumnTypes, length \in {<<>>, s_50},
       flag \in {<<>>, s_1}}

\* lines 28-31: a container that does not open, lacks document.mwb.xml, or
\* holds a document that is not well-formed
BrokenDocuments ==
    {XDocument(container, <<>>, <<>>) :
       container \in {"not a zip file", "no document.mwb.xml", "malformed xml"}}

Documents ==
    GraphDocuments \cup MigrationDocuments \cup ColumnDocuments \cup BrokenDocuments

\* table names: the ones generate_all and the seeders treat specially, in
\* both cases, and singular, plural and two-word names
SchemaNamePool ==
    <<s_users, s_uc_users, s_rol, s_estatus, s_roles, s_status, s_post, s_posts,
      s_user_posts, s_categories>>

\* a table with a primary key, a nullable foreign-key column and a code
SchemaTable(i, name) ==
    XTable(TableId(i), name,
           <<XColumn(ColumnId(i, 1), s_id, s_int, <<>>, s_1, s_1),
             XColumn(ColumnId(i, 2), s_parent_id, s_int, <<>>, <<>>, <<>>),
             XColumn(ColumnId(i, 3), s_code, s_varchar, s_50, s_1, <<>>)>>)

\* no foreign key, one in either direction, one of a table to itself, one
\* over two columns, one on the primary key, and two to the same table
SchemaFkLists ==
    {<<>>, <<GraphFk(2, 1)>>, <<GraphFk(1, 2)>>, <<GraphFk(2, 2)>>,
     <<XForeignKey(TableId(2), TableId(1), <<ColumnId(2, 2), ColumnId(2, 3)>>,
                   <<ColumnId(1, 1), ColumnId(1, 3)>>, <<>>)>>,
     <<XForeignKey(TableId(2), TableId(1), <<ColumnId(2, 1)>>,
                   <<ColumnId(1, 1)>>, <<>>)>>,
     <<GraphFk(2, 1),
       XForeignKey(TableId(2), TableId(1), <<ColumnId(2, 3)>>,
                   <<ColumnId(1, 3)>>, <<>>)>>}

\* two tables of different names
SchemaDocuments ==
    {XDocument("ok", <<SchemaTable(1, SchemaNamePool[p[1]]),
                       SchemaTable(2, SchemaNamePool[p[2]])>>, fks) :
       p \in {q \in (1..Len(SchemaNamePool)) \X (1..Len(SchemaNamePool)) :
                q[1] # q[2]},
       fks \in SchemaFkLists}

\* the output directory before the run: missing, or left by an earlier run
NoOutput == [d \in {OutputDirs[i] : i \in 1..Len(OutputDirs)} \cup {"."} |->
               [exists |-> FALSE, files |-> <<>>]]

OldOutput == [d \in {OutputDirs[i] : i \in 1..Len(OutputDirs)} \cup {"."} |->
                [exists |-> TRUE,
                 files  |-> IF d = "." THEN <<File(s_notes_txt, <<>>)>>
                            ELSE <<File(s_old_php, <<>>)>>]]

PriorOutputs(doc) ==
    IF doc \in GraphDocuments \cup BrokenDocuments
    THEN {NoOutput, OldOutput} ELSE {NoOutput}

Init ==
    /\ document \in Documents
    /\ pc = "parse"
    /\ generator = FALSE
    /\ tables = <<>>
    /\ relationships = <<>>
    /\ migration_counter = 0
    /\ clock = 0
    /\ dependency_map = <<>>
    /\ visited = {}
    /\ sorted_tables = <<>>
    /\ stack = <<>>
    /\ cursor = 1
    /\ artifact = 1
    /\ fs \in PriorOutputs(document)
    /\ trace = <<>>
    /\ naming = NoNaming

Spec == Init /\ [][Next]_vars

\* the tables of the largest schema the clock is observed on
MaxMigrations == 100

\* table i of a long schema: its primary key only
ClockTable(i) ==
    XTable(<<"T">> \o NatText(i), <<"t">> \o NatText(i),
           <<XColumn(<<"T">> \o NatText(i) \o <<"C", "1">>, s_id, s_int, <<>>, s_1, s_1)>>)

\* n tables, the second referencing the first
ClockDocument(n) ==
    XDocument("ok", [i \in 1..n |-> ClockTable(i)],
              IF n < 2 THEN <<>>
              ELSE <<XForeignKey(ClockTable(2).id, ClockTable(1).id,
                                 <<ClockTable(2).columns[1].id>>,
                                 <<ClockTable(1).columns[1].id>>, <<>>)>>)

ClockDocuments == {ClockDocument(n) : n \in {1, 2, 3, MaxMigrations}}

\* the run on a long schema, with the clock running
InitClock ==
    /\ document \in ClockDocuments
    /\ pc = "parse"
    /\ generator = FALSE
    /\ tables = <<>>
    /\ relationships = <<>>
    /\ migration_counter = 0
    /\ clock = 0
    /\ dependency_map = <<>>
    /\ visited = {}
    /\ sorted_tables = <<>>
    /\ stack = <<>>
    /\ cursor = 1
    /\ artifact = 1
    /\ fs = NoOutput
    /\ trace = <<>>
    /\ naming = NoNaming

SpecClock == InitClock /\ [][NextClock]_vars

\* the texts of at most MaxTypeText characters a type field may hold, and
\* the type names MySQL Workbench writes
MaxTypeText == 3

TypeAlphabet == {"t", "."}

TypeTexts ==
    UNION {[1..n -> TypeAlphabet] : n \in 0..MaxTypeText}
    \cup {s_varchar, s_uc_varchar, s_int, s_varchar_45, s_qualified_int,
          s_qualified_varchar, s_user_bool}

TypedColumn(name, simple, user, autoinc) ==
    [XColumn(ColumnId(1, 1), name, simple, <<>>, <<>>, autoinc)
       EXCEPT !.userType = user]

\* column names with none, one or several of the keywords of type correction
CorrectionNames ==
    {s_id, s_uc_id, s_user_id, s_fecha_id, s_fecha, s_uc_fecha, s_fecha_hora,
     s_update_time, s_created_date, s_fecha_creacion, s_date_reservacion,
     s_hora, s_timeline, s_edad, s_age, s_uc_age, s_years, s_page,
     s_edad_costo, s_precio, s_cost, s_price_date, s_time_cost, s_title}

\* one column: every pair of type fields, and every name with the types
\* that are or are not the generic string type
TypeDocuments ==
    {OneColumnDocument(TypedColumn(s_title, simple, user, <<>>)) :
       simple \in TypeTexts, user \in TypeTexts}
    \cup
    {OneColumnDocument(TypedColumn(name, simple, <<>>, autoinc)) :
       name \in CorrectionNames,
       simple \in {<<>>, s_varchar, s_uc_varchar, s_int, s_varchar_45,
                   s_qualified_varchar},
       autoinc \in {<<>>, s_1}}

\* the run on a one-column schema, or on a schema of two tables
InitTypes ==
    /\ document \in TypeDocuments \cup SchemaDocuments
    /\ pc = "parse"
    /\ generator = FALSE
    /\ tables = <<>>
    /\ relationships = <<>>
    /\ migration_counter = 0
    /\ clock = 0
    /\ dependency_map = <<>>
    /\ visited = {}
    /\ sorted_tables = <<>>
    /\ stack = <<>>
    /\ cursor = 1
    /\ artifact = 1
    /\ fs = NoOutput
    /\ trace = <<>>
    /\ naming = NoNaming

SpecTypes == InitTypes /\ [][Next]_vars

\* the longest identifier the converters are called on
MaxIdentifier == 5

\* lowercase words joined by single underscores
Identifiers ==
    {x \in UNION {[1..n -> {"a", "b", "_"}] : n \in 1..MaxIdentifier} :
       /\ x[1] # "_"
       /\ x[Len(x)] # "_"
       /\ \A i \in 1..(Len(x) - 1) : ~(x[i] = "_" /\ x[i + 1] = "_")}

\* a chain of converter calls on an identifier
InitNaming ==
    /\ document = XDocument("ok", <<>>, <<>>)
    /\ pc = "naming"
    /\ generator = FALSE
    /\ tables = <<>>
    /\ relationships = <<>>
    /\ migration_counter = 0
    /\ clock = 0
    /\ dependency_map = <<>>
    /\ visited = {}
    /\ sorted_tables = <<>>
    /\ stack = <<>>
    /\ cursor = 1
    /\ artifact = 1
    /\ fs = NoOutput
    /\ trace = <<>>
    /\ \E x \in Identifiers :
          naming = [identifier |-> x, value |-> x, applied |-> <<>>,
                    limit |-> MaxApplied]

SpecNaming == InitNaming /\ [][NextNaming]_vars

\* a chain of snake-case and Pascal-case conversions of an identifier
InitSnake ==
    /\ document = XDocument("ok", <<>>, <<>>)
    /\ pc = "naming"
    /\ generator = FALSE
    /\ tables = <<>>
    /\ relationships = <<>>
    /\ migration_counter = 0
    /\ clock = 0
    /\ dependency_map = <<>>
    /\ visited = {}
    /\ sorted_tables = <<>>
    /\ stack = <<>>
    /\ cursor = 1
    /\ artifact = 1
    /\ fs = NoOutput
    /\ trace = <<>>
    /\ \E x \in Identifiers :
          naming = [identifier |-> x, value |-> x, applied |-> <<>>,
                    limit |-> MaxChain]

SpecSnake == InitSnake /\ [][NextSnake]_vars

\* the longest word that is pluralized or singularized
MaxWord == 3

\* letters that end the suffixes of the plural and singular rules
WordAlphabet == {"a", "c", "e", "f", "h", "i", "s", "v", "x", "y"}

Words == UNION {[1..n -> WordAlphabet] : n \in 1..MaxWord}

\* a chain of plural and singular conversions of a word
InitInflect ==
    /\ document = XDocument("ok", <<>>, <<>>)
    /\ pc = "naming"
    /\ generator = FALSE
    /\ tables = <<>>
    /\ relationships = <<>>
    /\ migration_counter = 0
    /\ clock = 0
    /\ dependency_map = <<>>
    /\ visited = {}
    /\ sorted_tables = <<>>
    /\ stack = <<>>
    /\ cursor = 1
    /\ artifact = 1
    /\ fs = NoOutput
    /\ trace = <<>>
    /\ \E w \in Words :
          naming = [identifier |-> w, value |-> w, applied |-> <<>>,
                    limit |-> MaxApplied]

SpecInflect == InitInflect /\ [][NextInflect]_vars

\* the tables of a foreign-key graph, and the longest cycle in it
MaxCycle == 3

\* schemas of at most MaxCycle tables with at most MaxCycle foreign keys, all
\* between existing tables: chains, self references and cycles
CycleDocuments ==
    UNION {
      {XDocument("ok", [i \in 1..n |-> GraphTable(i)], fks) :
         fks \in SubSeqs(SubSeq(GraphFkPool(n), 1, n * n), MaxCycle)} :
      n \in 1..Min(MaxCycle, Len(TableNamePool))}

\* two tables of one name, as two schemas of a document may hold
TwinDocuments ==
    {XDocument("ok",
               <<GraphTable(1),
                 XTable(TableId(2), TableNamePool[1],
                        <<XColumn(ColumnId(2, 1), s_id, s_int, <<>>, s_1, s_1),
                          XColumn(ColumnId(2, 2), s_code, s_varchar, s_50, <<>>, <<>>)>>),
                 GraphTable(3)>>,
               fks) :
       fks \in SubSeqs(SubSeq(GraphFkPool(3), 1, 9), 1)}

InitSort ==
    /\ document \in CycleDocuments \cup TwinDocuments
    /\ pc = "parse"
    /\ generator = FALSE
    /\ tables = <<>>
    /\ relationships = <<>>
    /\ migration_counter = 0
    /\ clock = 0
    /\ dependency_map = <<>>
    /\ visited = {}
    /\ sorted_tables = <<>>
    /\ stack = <<>>
    /\ cursor = 1
    /\ artifact = 1
    /\ fs = NoOutput
    /\ trace = <<>>
    /\ naming = NoNaming

\* lines 234-270: a step of the sort
_sort_tables_by_dependencies ==
    \/ SortBegin
    \/ VisitTable
    \/ VisitDependency
    \/ VisitReturn
    \/ SortEnd

\* the run is one thread of control: a step of the sort that can be taken
\* is taken
SpecSort == InitSort /\ [][Next]_vars /\ WF_vars(_sort_tables_by_dependencies)

\* the run on a schema of two tables
InitSchema ==
    /\ document \in SchemaDocuments
    /\ pc = "parse"
    /\ generator = FALSE
    /\ tables = <<>>
    /\ relationships = <<>>
    /\ migration_counter = 0
    /\ clock = 0
    /\ dependency_map = <<>>
    /\ visited = {}
    /\ sorted_tables = <<>>
    /\ stack = <<>>
    /\ cursor = 1
    /\ artifact = 1
    /\ fs = NoOutput
    /\ trace = <<>>
    /\ naming = NoNaming

SpecSchema == InitSchema /\ [][Next]_vars

---------------------------------------------------------------------------
(* Properties.                                                             *)

Performed(op) == \E i \in 1..Len(trace) : trace[i].op = op

\* the index of the first event of a table's artifact, 0 when there is none
EventIndex(op, table_name) ==
    IF \E i \in 1..Len(trace) : trace[i] = Event(op, table_name)
    THEN CHOOSE i \in 1..Len(trace) :
           /\ trace[i] = Event(op, table_name)
           /\ \A j \in 1..(i - 1) : trace[j] # Event(op, table_name)
    ELSE 0

\* the position of a table in the table list
Position(tabs, table_name) == CHOOSE i \in 1..Len(tabs) : tabs[i].name = table_name

HasTable(tabs, table_name) == \E i \in 1..Len(tabs) : tabs[i].name = table_name

TableNamed(table_name) == tables[Position(tables, table_name)]

\* the migrations this run has written
MigrationsWritten ==
    IF Performed("create_directories")
    THEN {fs["migrations"].files[i].content : i \in 1..Len(fs["migrations"].files)}
    ELSE {}

Lines(migration) ==
    {migration.columns_code[i] : i \in 1..Len(migration.columns_code)}

Clauses(migration) == {migration.fk_code[i] : i \in 1..Len(migration.fk_code)}

ColumnsOf(table) == {table.columns[i] : i \in 1..Len(table.columns)}

\* every relationship names two tables of the schema
AllResolved ==
    \A i \in 1..Len(relationships) :
       /\ HasTable(tables, relationships[i].source_table)
       /\ HasTable(tables, relationships[i].target_table)

Targets(table_name) ==
    {relationships[i].target_table :
       i \in {k \in 1..Len(relationships) : relationships[k].source_table = table_name}}

RECURSIVE ReachableIn(_, _)
ReachableIn(names, k) ==
    IF k = 0 THEN names
    ELSE ReachableIn(names \cup UNION {Targets(n) : n \in names}, k - 1)

\* no table reaches itself along foreign keys
Acyclic ==
    \A i \in 1..Len(tables) :
       tables[i].name \notin ReachableIn(Targets(tables[i].name), Len(tables))

\* C1: once the tables are sorted, in a schema whose relationships all name
\* existing tables and whose foreign-key graph is acyclic, the target table
\* of every relationship is at a position no greater than its source table's.
C1_DependencyOrder ==
    (Performed("sort") /\ AllResolved /\ Acyclic) =>
       \A i \in 1..Len(relationships) :
          Position(tables, relationships[i].target_table)
            <= Position(tables, relationships[i].source_table)

\* a sorted acyclic schema in which a table that the document lists after a
\* table referencing it now comes before it
C1_Witness ==
    /\ Performed("sort") /\ AllResolved /\ Acyclic
    /\ \E i \in 1..Len(relationships) :
          LET names == [k \in 1..Len(document.tables) |-> document.tables[k]]
              src   == relationships[i].source_table
              tgt   == relationships[i].target_table
          IN /\ Position(names, tgt) > Position(names, src)
             /\ Position(tables, tgt) < Position(tables, src)

\* the stage of an event: extraction, then directories and sort, then the
\* tables' artifacts, then the routes file, then the seed orchestration
StageRank(event) ==
    CASE event.op = "extract" -> 1
      [] event.op \in {"create_directories", "sort"} -> 2
      [] event.op \in {"migration", "model", "controller", "seeder"} -> 3
      [] event.op = "routes" -> 4
      [] event.op = "database_seeder" -> 5

\* C2: the stages of a run happen in a fixed order: extraction before the
\* directories are recreated and the tables sorted, those before any table's
\* artifact, a table's migration before its model, controller and seeder, the
\* routes file and then the seed orchestration after every table's artifacts;
\* a run that ends successfully has performed all of them.
C2_StageOrder ==
    /\ \A i, j \in 1..Len(trace) :
          i < j => /\ StageRank(trace[i]) <= StageRank(trace[j])
                   /\ StageRank(trace[i]) = StageRank(trace[j])
                        => trace[i].op \notin {"extract", "routes", "database_seeder"}
    /\ \A j \in 1..Len(trace) :
          trace[j].op \in {"model", "controller", "seeder"} =>
             /\ EventIndex("migration", trace[j].table) > 0
             /\ EventIndex("migration", trace[j].table) < j
    /\ pc = "done" =>
          /\ \A op \in {"extract", "create_directories", "sort", "routes",
                        "database_seeder"} : Performed(op)
          /\ \A i \in 1..Len(tables) :
                /\ EventIndex("migration", tables[i].name) > 0
                /\ EventIndex("controller", tables[i].name) > 0

\* a finished run over several tables that wrote models and seeders
C2_Witness ==
    /\ pc = "done"
    /\ Len(tables) >= 2
    /\ \E i, j \in 1..Len(trace) : trace[i].op = "model" /\ trace[j].op = "seeder"

\* C3: when extraction fails, every step of the run leaves the output
\* directories as they were, writes nothing, starts no generator and ends
\* the run with the failure status.
C3_ExtractionFailureAborts ==
    [][~ParseSucceeds(document) =>
         /\ pc' = "exit1"
         /\ generator' = FALSE
         /\ fs' = fs
         /\ trace' = <<>>]_vars

\* a failed run that has ended, the earlier output still in place
C3_Witness ==
    /\ ~ParseSucceeds(document)
    /\ pc = "exit1"
    /\ fs = OldOutput

\* a relationship whose owner or referenced table is not in the identifier map
Unresolved ==
    \E i \in 1..Len(relationships) :
       \/ ~HasTable(tables, relationships[i].source_table)
       \/ ~HasTable(tables, relationships[i].target_table)

\* C4: a foreign key whose owner or referenced table identifier is unknown
\* is not fatal: the run raises nothing and completes.
C4_UnresolvedIsNotFatal ==
    (generator /\ Unresolved) => pc # "raised"

\* the columns of a table that count as foreign keys: a source column of one
\* of its relationships, or a name ending in _id other than id
IdentifiedAsForeignKey(table, name) ==
    \/ \E i \in 1..Len(relationships) :
          /\ relationships[i].source_table = table.name
          /\ InList(name, relationships[i].source_columns)
    \/ (EndsWith(name, s_suffix_id) /\ name # s_id)

\* C5: in a migration, a column identified as a foreign key has no column
\* declaration and is in exactly one foreign-key clause.
C5_ForeignKeyColumnOnce ==
    \A m \in MigrationsWritten :
       \A col \in ColumnsOf(TableNamed(m.table_name)) :
          IdentifiedAsForeignKey(TableNamed(m.table_name), col.name) =>
             /\ \A l \in Lines(m) : l.name # col.name
             /\ Cardinality({k \in 1..Len(m.fk_code) :
                               m.fk_code[k].column = col.name}) = 1

\* the delete action the claim gives a delete rule of the document
ExpectedDelete(rule) ==
    CASE rule = <<>> -> {"restrictOnDelete"}
      [] rule = s_uc_restrict -> {"restrictOnDelete"}
      [] rule = s_uc_cascade -> {"cascadeOnDelete"}
      [] rule = s_uc_set_null -> {"nullOnDelete"}
      [] OTHER -> {"cascadeOnDelete", "nullOnDelete", "restrictOnDelete", "none"}

\* C6: for every relationship with a source and a target column, the
\* migration of its source table has a clause on the first source column that
\* is constrained to the target table, is nullable exactly when that column
\* is declared without the not-null flag, and carries the delete action of
\* the document's delete rule, a missing rule counting as restrict.
C6_ForeignKeyClause ==
    \A m \in MigrationsWritten :
       \A i \in 1..Len(relationships) :
          LET rel == relationships[i] IN
          (/\ rel.source_table = m.table_name
           /\ rel.source_columns # <<>>
           /\ rel.target_columns # <<>>) =>
             \E c \in Clauses(m) :
                /\ c.column = rel.source_columns[1]
                /\ c.constrained = rel.target_table
                /\ c.on_delete \in ExpectedDelete(document.fks[i].deleteRule)
                /\ \A col \in ColumnsOf(TableNamed(m.table_name)) :
                      col.name = c.column => (c.nullable <=> ~col.not_null)

\* a migration with a nullable clause on a column of its table that is
\* constrained to users and nulls on delete
C6_Witness ==
    \E m \in MigrationsWritten :
       \E c \in Clauses(m) :
          /\ c.nullable
          /\ c.on_delete = "nullOnDelete"
          /\ c.constrained = s_users
          /\ \E col \in ColumnsOf(TableNamed(m.table_name)) : col.name = c.column

\* a minus sign followed by zeros only: a number that is not negative,
\* written with a sign
NegativeZero(length) ==
    /\ Len(length) >= 2
    /\ Head(length) = "-"
    /\ \A i \in 2..Len(length) : length[i] = "0"

\* the length arguments the claim allows for a declared length
ExpectedLength(length) ==
    IF IsDigit(length) THEN {length}
    ELSE IF NegativeZero(length) THEN {length, s_255}
    ELSE {s_255}

\* C7: emitting a string or char column never fails, and its length
\* argument is the declared length when that is a non-negative decimal
\* number and 255 for every other declared length.
C7_StringLength ==
    /\ ~(pc = "raised" /\ Performed("sort"))
    /\ \A m \in MigrationsWritten :
          \A l \in Lines(m) :
             (l.method \in {"string", "char"} /\ l.name # s_id) =>
                \A col \in ColumnsOf(TableNamed(m.table_name)) :
                   col.name = l.name =>
                      \E expected \in ExpectedLength(col.length) :
                         l.args = <<expected>>

\* C8: every migration has exactly one timestamps directive, a soft-delete
\* directive exactly when its table has a column named deleted_at, and no
\* column declaration for created_at, updated_at or deleted_at.
C8_TimestampDirectives ==
    \A m \in MigrationsWritten :
       LET special == m.special_columns
           count(d) == Cardinality({k \in 1..Len(special) : special[k] = d})
       IN /\ count("timestamps") = 1
          /\ count("softDeletes") =
               (IF \E col \in ColumnsOf(TableNamed(m.table_name)) :
                      col.name = s_deleted_at
                THEN 1 ELSE 0)
          /\ \A l \in Lines(m) :
                l.name \notin {s_created_at, s_updated_at, s_deleted_at}

\* the migration of a table with created_at and deleted_at columns, and the
\* migration of a table with neither
C8_Witness ==
    /\ \E m \in MigrationsWritten :
          /\ \E col \in ColumnsOf(TableNamed(m.table_name)) : col.name = s_deleted_at
          /\ \E col \in ColumnsOf(TableNamed(m.table_name)) : col.name = s_created_at
          /\ m.special_columns = <<"timestamps", "softDeletes">>
    /\ \E m \in MigrationsWritten : m.special_columns = <<"timestamps">>

\* the integer types of every width
IntegralTypes == {s_tinyint, s_smallint, s_mediumint, s_int, s_integer, s_bigint}

\* C9: a column named id is declared by the auto-increment primary-key
\* directive when its corrected type is an integer type of any width, and as
\* a plain string column named id otherwise.
C9_IdColumn ==
    \A m \in MigrationsWritten :
       \A col \in ColumnsOf(TableNamed(m.table_name)) :
          (col.name = s_id /\ ~IdentifiedAsForeignKey(TableNamed(m.table_name), s_id)) =>
             LET named == {l \in Lines(m) : l.name = s_id \/ l.method = "id"}
             IN IF BaseType(col) \in IntegralTypes
                THEN named = {ColumnLine("id", <<>>, <<>>)}
                ELSE named = {ColumnLine("string", s_id, <<>>)}

\* C10 as stated: every declared column whose name contains "email" is unique,
\* whatever its type.
C10_EmailAlwaysUnique ==
    \A m \in MigrationsWritten :
       \A l \in Lines(m) : Contains(l.name, s_email) => l.unique

\* C10, amended: a declared column whose name contains "email" in any letter
\* case is unique exactly when it is declared as a string column.
C10_EmailUniqueWhenString ==
    \A m \in MigrationsWritten :
       \A l \in Lines(m) :
          Contains(Lower(l.name), s_email) => (l.unique <=> l.method = "string")

\* the migration of a table whose column Email is declared as a unique
\* string column
C10_Witness ==
    \E m \in MigrationsWritten :
       \E l \in Lines(m) : l.name = s_uc_email /\ l.method = "string" /\ l.unique

\* the events of this run for one table's artifact
Emitted(op, table_name) == EventIndex(op, table_name) > 0

\* C11: when the run has finished, every table of the schema has had a
\* migration and a controller emitted, a model exactly when its lowercased
\* name is not users, and a seeder exactly when its lowercased name is none
\* of users, rol, estatus, roles, status.
C11_ArtifactsPerTable ==
    pc = "done" =>
       \A i \in 1..Len(tables) :
          LET name == tables[i].name
          IN /\ Emitted("migration", name)
             /\ Emitted("controller", name)
             /\ Emitted("model", name) <=> Lower(name) # s_users
             /\ Emitted("seeder", name) <=>
                  Lower(name) \notin {s_users, s_rol, s_estatus, s_roles, s_status}

C11_Witness ==
    /\ pc = "done"
    /\ HasTable(tables, s_uc_users)
    /\ HasTable(tables, s_status)
    /\ ~Emitted("model", s_uc_users)
    /\ Emitted("model", s_status)
    /\ ~Emitted("seeder", s_status)

\* the files of an output directory
FilesIn(dir) == {fs[dir].files[i] : i \in 1..Len(fs[dir].files)}

\* the tables whose lowercased name is none of the given ones
TablesNotIn(excluded) ==
    {i \in 1..Len(tables) : Lower(tables[i].name) \notin excluded}

\* C12: a finished run over distinctly named tables leaves one controller
\* file per table, one model file per table that is not users and one seeder
\* file per table that is not excluded from seeding: no two tables resolve to
\* the same Pascal-style singular file name.
C12_DistinctFileNames ==
    pc = "done" =>
       /\ Cardinality(FilesIn("controllers")) = Len(tables)
       /\ Cardinality(FilesIn("models")) = Cardinality(TablesNotIn({s_users}))
       /\ Cardinality({f \in FilesIn("seeders") : f.name # s_DatabaseSeeder_php})
             = Cardinality(TablesNotIn({s_users, s_rol, s_estatus, s_roles, s_status}))
       /\ \A i, j \in 1..Len(tables) :
             i # j => ModelName(tables[i].name) # ModelName(tables[j].name)

\* the characters of file names in the order of their codes
AsciiOrder == <<".">> \o DigitSeq \o UpperCase \o <<"_">> \o LowerCase

CharCode ==
    [c \in {AsciiOrder[i] : i \in 1..Len(AsciiOrder)} |->
       CHOOSE i \in 1..Len(AsciiOrder) : AsciiOrder[i] = c]

\* a < b as Python compares str, which is how a directory listing is sorted
LexLess(a, b) ==
    LET differ == {i \in 1..Min(Len(a), Len(b)) : a[i] # b[i]}
    IN IF differ = {} THEN Len(a) < Len(b)
       ELSE LET k == CHOOSE i \in differ : \A j \in differ : i <= j
            IN CharCode[a[k]] < CharCode[b[k]]

\* the tables whose migration has been emitted, in emission order
MigratedTables ==
    LET events == SelectSeq(trace, LAMBDA e : e.op = "migration")
    IN [i \in 1..Len(events) |-> events[i].table]

\* C13: within a run the migration counter starts at 1 and grows by one per
\* emitted migration, the migration file names are pairwise distinct, and
\* sorting them lexicographically yields the tables in emission order,
\* however many tables there are and whether or not the clock advances
\* (every name sorting before the next one makes them distinct and sorted).
C13_MigrationFileOrder ==
    Performed("create_directories") =>
       LET files == fs["migrations"].files
       IN /\ migration_counter = 1 + Len(MigratedTables)
          /\ Len(files) = Len(MigratedTables)
          /\ \A i \in 1..Len(files) :
                EndsWith(files[i].name,
                         s_create_ \o MigratedTables[i] \o s__table \o s_dot_php)
          /\ \A i \in 1..(Len(files) - 1) :
                LexLess(files[i].name, files[i + 1].name)

\* the seeders DatabaseSeeder.php calls, in call order
SeederCalls ==
    LET file == CHOOSE f \in FilesIn("seeders") : f.name = s_DatabaseSeeder_php
    IN file.content

\* the tables that get a seeder of their own, in table order
SeededTables ==
    SelectSeq(tables, LAMBDA t :
       Lower(t.name) \notin {s_users, s_rol, s_estatus, s_roles, s_status})

\* the position in SeederCalls of the call of a seeded table's seeder
CallIndex(table_name) ==
    Len(original_seeders) + Position(SeededTables, table_name)

\* C14: DatabaseSeeder.php calls the hand-authored seeders RolSeeder,
\* EstatusSeeder, UserSeeder first, then one seeder per table that is not
\* excluded from seeding, in table order; so when the relationships all name
\* existing tables and are acyclic, the seeder of a relationship's target is
\* called no later than the seeder of its source.
C14_SeederCallOrder ==
    pc = "done" =>
       /\ Len(SeederCalls) = 3 + Len(SeededTables)
       /\ SubSeq(SeederCalls, 1, 3) = <<s_RolSeeder, s_EstatusSeeder, s_UserSeeder>>
       /\ \A k \in 1..Len(SeededTables) :
             SeederCalls[3 + k] = ModelName(SeededTables[k].name) \o s_Seeder
       /\ (AllResolved /\ Acyclic) =>
             \A i \in 1..Len(relationships) :
                LET rel == relationships[i]
                IN (HasTable(SeededTables, rel.source_table)
                      /\ HasTable(SeededTables, rel.target_table))
                   => CallIndex(rel.target_table) <= CallIndex(rel.source_table)

\* posts references tags, which the document lists after it
C14_Witness ==
    /\ pc = "done"
    /\ AllResolved
    /\ Acyclic
    /\ TableNames(_extract_tables(document)) = <<s_users, s_posts, s_tags>>
    /\ \E i \in 1..Len(relationships) :
          /\ relationships[i].source_table = s_posts
          /\ relationships[i].target_table = s_tags
    /\ SeederCalls = <<s_RolSeeder, s_EstatusSeeder, s_UserSeeder,
                       s_TagSeeder, s_PostSeeder>>

\* this run has written a file of that name into the directory
WrittenInRun(dir, name) ==
    \E i \in 1..Len(trace) :
       LET e == trace[i]
       IN \/ /\ dir = "migrations" /\ e.op = "migration"
             /\ EndsWith(name, s_create_ \o e.table \o s__table \o s_dot_php)
          \/ /\ dir = "models" /\ e.op = "model"
             /\ name = ModelName(e.table) \o s_dot_php
          \/ /\ dir = "controllers" /\ e.op = "controller"
             /\ name = ModelName(e.table) \o s_Controller \o s_dot_php
          \/ /\ dir = "seeders" /\ e.op = "seeder"
             /\ name = ModelName(e.table) \o s_Seeder \o s_dot_php
          \/ /\ dir = "seeders" /\ e.op = "database_seeder"
             /\ name = s_DatabaseSeeder_php
          \/ /\ dir = "routes" /\ e.op = "routes"
             /\ name = s_api_php

OnlyThisRunsFiles ==
    pc = "done" =>
       \A k \in 1..Len(OutputDirs) :
          \A f \in FilesIn(OutputDirs[k]) : WrittenInRun(OutputDirs[k], f.name)

\* C15: when a run has finished, the five output subdirectories hold only
\* files that run wrote, and no step of a run removes or changes an entry of
\* the output directory outside those five subdirectories.
C15_ReplacesPriorOutput ==
    /\ []OnlyThisRunsFiles
    /\ [][fs'["."].files = fs["."].files]_vars

\* a finished run over a directory an earlier run had filled
C15_Witness ==
    /\ pc = "done"
    /\ fs["."].files = <<File(s_notes_txt, <<>>)>>
    /\ \A k \in 1..Len(OutputDirs) : fs[OutputDirs[k]].files # <<>>

\* the plural of a table name's singular form, as NamingHelper forms it
PluralForm(table_name) == to_plural(_singular(table_name))

\* C16: a generated model has one belongs-to accessor per relationship whose
\* source is its table, named after the singular form of the target table,
\* and one has-many accessor per relationship whose target is its table,
\* named after the plural form of the source table.
C16_AccessorNames ==
    Performed("create_directories") =>
       \A f \in FilesIn("models") :
          LET outgoing == SelectSeq(relationships,
                             LAMBDA rel : rel.source_table = f.content.table_name)
              incoming == SelectSeq(relationships,
                             LAMBDA rel : rel.target_table = f.content.table_name)
              belongs  == SelectSeq(f.content.relationships,
                             LAMBDA a : a.kind = "belongsTo")
              many     == SelectSeq(f.content.relationships,
                             LAMBDA a : a.kind = "hasMany")
          IN /\ Len(belongs) = Len(outgoing)
             /\ \A i \in 1..Len(belongs) :
                   belongs[i].method_name
                     = _to_camel_case(_singular(outgoing[i].target_table))
             /\ Len(many) = Len(incoming)
             /\ \A i \in 1..Len(many) :
                   many[i].method_name
                     = _to_camel_case(PluralForm(incoming[i].source_table))

\* the validated columns of a table: all but the key and the timestamps
ValidatedColumns(table) ==
    SelectSeq(table.columns, LAMBDA col :
       col.name \notin {s_id, s_created_at, s_updated_at, s_deleted_at})

ExistsParts(rule) ==
    {k \in 1..Len(rule.parts) : StartsWith(rule.parts[k], s_exists_colon)}

\* C17: the validation rules of a controller hold one rule per column other
\* than id, created_at, updated_at, deleted_at, in column order; each starts
\* with required when the column is not null and with nullable otherwise;
\* and the rule of a column that is a source column of a relationship of the
\* table has exactly one existence part, naming that relationship's target
\* table and the target column the source column is paired with.
C17_ValidationRules ==
    Performed("create_directories") =>
       \A f \in FilesIn("controllers") :
          LET table == TableNamed(f.content.table_name)
              cols  == ValidatedColumns(table)
              rules == f.content.validation_rules
          IN /\ Len(rules) = Len(cols)
             /\ \A i \in 1..Len(rules) :
                   /\ rules[i].column = cols[i].name
                   /\ rules[i].parts[1]
                        = (IF cols[i].not_null THEN s_required ELSE s_nullable)
                   /\ \A r \in 1..Len(relationships) :
                         LET rel == relationships[r]
                         IN \A k \in 1..Len(rel.source_columns) :
                               (/\ rel.source_table = table.name
                                /\ rel.source_columns[k] = cols[i].name
                                /\ k <= Len(rel.target_columns))
                               => /\ Cardinality(ExistsParts(rules[i])) = 1
                                  /\ \A e \in ExistsParts(rules[i]) :
                                        rules[i].parts[e]
                                          = s_exists_colon \o rel.target_table
                                              \o <<",">> \o rel.target_columns[k]

\* the column elements of the document, each with the column extracted
\* from it
ExtractedColumns ==
    UNION {
      {<<document.tables[i].columns[j],
         TableNamed(document.tables[i].name).columns[j]>> :
         j \in 1..Len(document.tables[i].columns)} :
      i \in 1..Len(document.tables)}

\* the rules of type correction as (condition, corrected type), in order
CorrectionRules(col_name, is_auto_inc) ==
    LET n == Lower(col_name)
        dated == Contains(n, s_fecha) \/ Contains(n, s_date)
        timed == Contains(n, s_hora) \/ Contains(n, s_time)
    IN << <<is_auto_inc, s_uc_bigint>>,
          <<n = s_id \/ EndsWith(n, s_suffix_id), s_uc_bigint>>,
          <<dated /\ (timed \/ Contains(n, s_creacion) \/ Contains(n, s_reservacion)),
            s_uc_datetime>>,
          <<dated, s_uc_date>>,
          <<timed, s_uc_time>>,
          <<n \in {s_edad, s_age, s_years}, s_uc_int>>,
          <<\/ Contains(n, s_precio) \/ Contains(n, s_costo)
            \/ Contains(n, s_price) \/ Contains(n, s_cost), s_uc_decimal>> >>

\* the result of the first rule whose condition holds
FirstMatch(rules, default) ==
    IF \E i \in 1..Len(rules) : rules[i][1]
    THEN rules[CHOOSE i \in 1..Len(rules) :
                 rules[i][1] /\ \A j \in 1..(i - 1) : ~rules[j][1]][2]
    ELSE default

\* C18: the type of an extracted column is the result of the first rule, in
\* the order auto-increment, id name, date keyword (with or without a time
\* or creation keyword), time keyword, age name, price keyword, that matches
\* when the raw type is the generic string type in any letter case, and the
\* raw type itself when no rule matches or the raw type is another one; it
\* is a function of the name, the raw type and the auto-increment flag.
C18_TypeCorrection ==
    Performed("extract") =>
       \A pair \in ExtractedColumns :
          LET raw == RawType(pair[1])
          IN pair[2].type
               = IF Lower(raw) = s_varchar
                 THEN FirstMatch(CorrectionRules(pair[1].name,
                                                 pair[1].autoIncrement = s_1), raw)
                 ELSE raw

\* a name with a time and a date keyword, and a name with a price and a
\* date keyword
C18_Witness ==
    /\ Performed("extract")
    /\ \E pair \in ExtractedColumns :
          /\ pair[1].simpleType = s_uc_varchar
          /\ \/ pair[2].name = s_update_time /\ pair[2].type = s_uc_datetime
             \/ pair[2].name = s_price_date /\ pair[2].type = s_uc_date

\* the type field read for a column: the simple type when there is one,
\* else the user type
ChosenType(column_elem) ==
    IF column_elem.simpleType # <<>> THEN column_elem.simpleType
    ELSE column_elem.userType

\* C19: every extracted column has a non-empty type, whatever its simple
\* type and user type fields hold: the simple type is preferred to the user
\* type, only the text after the last dot is kept, and the generic string
\* type stands in for a missing type (here for columns that type correction
\* leaves alone).
C19_TypeNonEmpty ==
    Performed("extract") =>
       \A pair \in ExtractedColumns :
          /\ pair[2].type # <<>>
          /\ (pair[2].name = s_title /\ ~pair[2].auto_increment) =>
                pair[2].type = IF ChosenType(pair[1]) = <<>> THEN s_varchar
                               ELSE LastSegment(ChosenType(pair[1]), ".")

\* C20: for an identifier of lowercase words joined by underscores, the
\* camel-case form of its Pascal-case form is its camel-case form, with the
\* converters of NamingHelper and with the generator's own.
C20_CamelOfPascal ==
    /\ naming.applied = <<"NamingHelper.to_studly_case", "NamingHelper.to_camel_case">>
          => naming.value = to_camel_case(naming.identifier)
    /\ naming.applied = <<"_to_studly_case", "_to_camel_case">>
          => naming.value = _to_camel_case(naming.identifier)

\* snake(pascal(snake(x))) with the converters of NamingHelper
SnakePascalSnake(x) == to_snake_case(to_studly_case(to_snake_case(x)))

\* the calls of the chain snake, Pascal, snake
SnakeChain ==
    <<"NamingHelper.to_snake_case", "NamingHelper.to_studly_case",
      "NamingHelper.to_snake_case">>

\* C21: for an identifier x of lowercase words joined by underscores, and
\* f(x) = snake(pascal(snake(x))), the chain applied a second time changes
\* nothing: f(f(x)) = f(x), also when x has one-letter words.
C21_SnakeChainIdempotent ==
    /\ naming.applied = SnakeChain
          => naming.value = SnakePascalSnake(naming.identifier)
    /\ naming.applied = SnakeChain \o SnakeChain
          => naming.value = SnakePascalSnake(naming.identifier)

\* the chain applied twice to an identifier with a one-letter word, which
\* its first application merges with a neighbour
C21_Witness ==
    /\ naming.applied = SnakeChain \o SnakeChain
    /\ naming.identifier = <<"a", "_", "b", "_", "a">>
    /\ naming.value = <<"a", "b", "a">>

\* C22: for a lowercase word w that is not in the irregular table, and so
\* is pluralized by one of the suffix rules (consonant+y, s/x/z/ch/sh, f,
\* fe, default), to_singular(to_plural(w)) is w.
C22_SingularOfPlural ==
    /\ naming.applied = <<"NamingHelper.to_plural", "NamingHelper.to_singular">>
    /\ ~\E i \in 1..Len(irregulars_plural) :
           irregulars_plural[i][1] = naming.identifier
    => naming.value = naming.identifier

\* C25: neither NamingHelper.to_singular nor the generator's _singular maps
\* a non-empty word to the empty string; short words such as "s", "es",
\* "ies" and "ves" keep at least one character.
C25_SingularNonEmpty ==
    /\ naming.applied \in {<<"NamingHelper.to_singular">>, <<"_singular">>}
    /\ naming.identifier # <<>>
    => naming.value # <<>>

\* the tables whose visit has begun, in the order the visits return or, for
\* those still on the stack, began
VisitsBegun == sorted_tables \o [i \in 1..Len(stack) |-> stack[i].name]

\* no table's visit has begun twice
VisitedOnce ==
    \A i, j \in 1..Len(VisitsBegun) : VisitsBegun[i] = VisitsBegun[j] => i = j

\* a foreign key of the table named source to the table named target
Refers(source, target) ==
    \E i \in 1..Len(relationships) :
       /\ relationships[i].source_table = source
       /\ relationships[i].target_table = target

\* C23: when every relationship names existing tables, the dependency sort
\* ends, also with a foreign key of a table to itself and with cycles of
\* foreign keys, and no table is visited more than once.
C23_SortTerminates ==
    /\ (pc = "sort" /\ AllResolved) ~> Performed("sort")
    /\ [](pc = "visit" => VisitedOnce)

\* the sort has ended on a cycle of three tables
C23_Witness ==
    /\ Performed("sort")
    /\ Refers(s_users, s_posts)
    /\ Refers(s_posts, s_tags)
    /\ Refers(s_tags, s_users)

\* the two sequences hold the same elements the same number of times
IsPermutation(a, b) ==
    /\ Len(a) = Len(b)
    /\ \A k \in 1..Len(a) :
          Cardinality({i \in 1..Len(a) : a[i] = a[k]})
            = Cardinality({i \in 1..Len(b) : b[i] = a[k]})

\* C24: once the schema is extracted, only the order of the table list ever
\* changes: the list is a permutation of the extracted tables (each one
\* once, none dropped or duplicated, also when the foreign keys form
\* cycles), with the columns and their fields as extracted, and the
\* relationships are the extracted ones.
C24_SchemaOnlyReordered ==
    Performed("extract") =>
       /\ IsPermutation(tables, _extract_tables(document))
       /\ relationships = _extract_relationships(document)

\* every artifact is written, of a schema whose foreign keys form a cycle
\* and whose tables the sort has reordered
C24_Witness ==
    /\ Performed("database_seeder")
    /\ ~Acyclic
    /\ Len(tables) = MaxCycle
    /\ tables # _extract_tables(document)

\* the seeders written for the tables
TableSeeders == {f \in FilesIn("seeders") : f.name # s_DatabaseSeeder_php}

\* the identifier lists a seeder's setup section declares
Declared(seeder) ==
    {seeder.fk_setup[i].var_ids : i \in 1..Len(seeder.fk_setup)}

\* the relationships of the table with the column among their source columns
SourcedBy(table_name, column_name) ==
    {r \in 1..Len(relationships) :
       /\ relationships[r].source_table = table_name
       /\ InList(column_name, relationships[r].source_columns)}

\* C26: in every generated seeder, each column that is a source column of
\* a relationship of the table is filled by sampling from an identifier list
\* that the seeder's setup section declares and that is fetched from the
\* target table of such a relationship, with the literal null (nullable
\* column) or 1 as the value when the list is empty; and every identifier
\* list a seeder samples from is declared in its setup section.
C26_SeederForeignKeys ==
    Performed("create_directories") =>
       \A f \in TableSeeders :
          LET table == TableNamed(f.content.table_name)
              lines == f.content.faker_fields
          IN /\ \A c \in 1..Len(table.columns) :
                   SourcedBy(table.name, table.columns[c].name) # {} =>
                      \E i \in 1..Len(lines) :
                         /\ lines[i].column = table.columns[c].name
                         /\ lines[i].var_ids \in Declared(f.content)
                         /\ \E r \in SourcedBy(table.name, table.columns[c].name) :
                               lines[i].var_ids
                                 = FkVariable(relationships[r].target_table)
                         /\ lines[i].fallback
                              = (IF table.columns[c].not_null THEN s_1 ELSE s_null)
             /\ \A i \in 1..Len(lines) :
                   lines[i].var_ids # <<>> => lines[i].var_ids \in Declared(f.content)

\* the columns a seeder never fills (lines 930-931)
AutomaticColumns == {s_id, s_created_at, s_updated_at, s_deleted_at}

\* C26 (amended): in every generated seeder, each column other than id,
\* created_at, updated_at and deleted_at that is a source column of a
\* relationship of the table is filled by sampling from an identifier list
\* that the seeder's setup section declares and that is fetched from the
\* target table of such a relationship, with the literal null (nullable
\* column) or 1 as the value when the list is empty; a source column with
\* one of the four names is not filled; and every identifier list a seeder
\* samples from is declared in its setup section.
C26_SeederForeignKeysFilled ==
    Performed("create_directories") =>
       \A f \in TableSeeders :
          LET table == TableNamed(f.content.table_name)
              lines == f.content.faker_fields
          IN /\ \A c \in 1..Len(table.columns) :
                   SourcedBy(table.name, table.columns[c].name) # {} =>
                      IF table.columns[c].name \in AutomaticColumns
                      THEN \A i \in 1..Len(lines) :
                              lines[i].column # table.columns[c].name
                      ELSE \E i \in 1..Len(lines) :
                              /\ lines[i].column = table.columns[c].name
                              /\ lines[i].var_ids \in Declared(f.content)
                              /\ \E r \in SourcedBy(table.name, table.columns[c].name) :
                                    lines[i].var_ids
                                      = FkVariable(relationships[r].target_table)
                              /\ lines[i].fallback
                                   = (IF table.columns[c].not_null THEN s_1
                                      ELSE s_null)
             /\ \A i \in 1..Len(lines) :
                   lines[i].var_ids # <<>> => lines[i].var_ids \in Declared(f.content)

\* a seeder that fills a nullable and a required source column of a
\* relationship over two columns
C26_Witness ==
    \E f \in TableSeeders :
       \E i, j \in 1..Len(f.content.faker_fields) :
          /\ f.content.faker_fields[i].var_ids # <<>>
          /\ f.content.faker_fields[i].fallback = s_null
          /\ f.content.faker_fields[j].var_ids = f.content.faker_fields[i].var_ids
          /\ f.content.faker_fields[j].fallback = s_1
          /\ Len(f.content.fk_setup) = 1

\* C27: in every generated controller of a table with outgoing
\* relationships, the variable the relations are loaded on in the create,
\* read and update handlers is the variable those handlers declare for the
\* model instance, also for a table name of several words.
C27_LoadVariableDeclared ==
    Performed("create_directories") =>
       \A f \in FilesIn("controllers") :
          f.content.load_relations.relations # <<>> =>
             f.content.load_relations.var_name = f.content.var_name

\* C28: the relationship accessors emitted into one model have pairwise
\* distinct names, also when the table has two relationships to the same
\* table or a foreign key to itself.
C28_AccessorsDistinct ==
    Performed("create_directories") =>
       \A f \in FilesIn("models") :
          \A i, j \in 1..Len(f.content.relationships) :
             f.content.relationships[i].method_name
               = f.content.relationships[j].method_name => i = j

\* the maximum-length parts of a validation rule
MaxParts(rule) ==
    {rule.parts[k] : k \in {n \in 1..Len(rule.parts) :
                              StartsWith(rule.parts[n], s_max_colon)}}

\* C29: for every string column (varchar or char), the controller's
\* validation rule has the maximum length that the migration declares for
\* the column, also when the declared length is missing, "-1" or otherwise
\* replaced by 255.
C29_MaxLengthMatchesMigration ==
    Performed("create_directories") =>
       \A c \in FilesIn("controllers"), m \in FilesIn("migrations") :
          c.content.table_name = m.content.table_name =>
             \A i \in 1..Len(c.content.validation_rules),
                k \in 1..Len(m.content.columns_code) :
                (/\ c.content.validation_rules[i].column
                      = m.content.columns_code[k].name
                 /\ m.content.columns_code[k].method \in {"string", "char"}
                 /\ m.content.columns_code[k].args # <<>>
                 /\ \E col \in ColumnsOf(TableNamed(c.content.table_name)) :
                       /\ col.name = m.content.columns_code[k].name
                       /\ Lower(col.type) \in {s_varchar, s_char})
                => MaxParts(c.content.validation_rules[i])
                     = {s_max_colon \o m.content.columns_code[k].args[1]}

\* the tables whose seeder the script calls: hand-authored for users, rol
\* and estatus, generated for the tables not excluded from seeding
HasSeeder(table_name) == Lower(table_name) \notin {s_roles, s_status}

\* the position of the first call of a table's seeder
SeederIndex(table_name) ==
    CHOOSE k \in 1..Len(SeederCalls) :
       /\ SeederCalls[k] = ModelName(table_name) \o s_Seeder
       /\ \A j \in 1..(k - 1) : SeederCalls[j] # SeederCalls[k]

====
